---- MODULE Spec2Model ----
(***************************************************************************)
(* Reconciliation process of postfixblocker: the background loop that      *)
(* watches the blocked_addresses table and regenerates the Postfix map     *)
(* files.  Two loops are shipped and both are modelled:                    *)
(*   run_forever   postfix_blocker/services/blocker_service.py             *)
(*   monitor_loop  postfix_blocker/blocker.py                              *)
(* The variable impl says which of the two the process runs.               *)
(*                                                                         *)
(* Text is modelled as sequences of code points, so that the rendering of  *)
(* a map file ('\n'.join(...)) and its reading back as lines are distinct  *)
(* conversions.                                                            *)
(***************************************************************************)
EXTENDS Integers, Sequences, FiniteSets, TLC

\* ------------------------------------------------------------------ bounds
\* Entries in a list handed to the Map Writer on its own (MapSpec).
MaxLen == 2
\* Committed inserts, updates and deletes in one behaviour.
MaxMut == 2
\* Refresh signals counted between two clearings of the flag.
MaxSig == 2
\* Calls of the Map Writer in a row with one entry list (MapSpec).
MaxCalls == 2

\* Calls of ensure_db_ready the API specification follows.
MaxApiCalls == 4

\* --------------------------------------------------------------- constants
\* Code points used by the map syntax.
LF == 10
TAB == 9
SPACE == 32
SLASH == 47

\* The text 'REJECT'.
REJECT == <<82, 69, 74, 69, 67, 84>>

\* The hash of the model is a polynomial hash of this width.
HashMod == 2 ^ 20

\* Python's None, for the optional marker and hash (a present one is a tuple).
None == <<>>

\* Patterns an administrator may store: 'a', and 'a<LF>b' (the API takes any
\* non-empty JSON string, routes_addresses.py add_address).
Patterns == { <<97>>, <<97, LF, 98>> }

\* BlockEntry(pattern, is_regex, test_mode)
BlockEntry(p, r, t) == [pattern |-> p, is_regex |-> r, test_mode |-> t]

Entries == { BlockEntry(p, r, t) : p \in Patterns, r \in BOOLEAN, t \in BOOLEAN }

\* The rules the administrators of the loop specification add and edit: an enforced
\* literal rule and a test-mode regex rule.
Rules == { BlockEntry(<<97>>, FALSE, FALSE), BlockEntry(<<97>>, TRUE, TRUE) }

\* ------------------------------------------------------------- map writer
FileNames == { "blocked_recipients", "blocked_recipients.pcre",
               "blocked_recipients_test", "blocked_recipients_test.pcre" }

\* The order in which write_map_files opens the four files.
WriteOrder == << "blocked_recipients", "blocked_recipients.pcre",
                 "blocked_recipients_test", "blocked_recipients_test.pcre" >>

\* A file that was never written, and a file holding text.
Absent == [exists |-> FALSE, text |-> <<>>]
Written(text) == [exists |-> TRUE, text |-> text]

\* f'{entry.pattern}\tREJECT'
line_lit(entry) == entry.pattern \o <<TAB>> \o REJECT

\* f'/{entry.pattern}/ REJECT'
line_re(entry) == <<SLASH>> \o entry.pattern \o <<SLASH, SPACE>> \o REJECT

\* The line an entry is rendered as.
LineOf(entry) == IF entry.is_regex THEN line_re(entry) ELSE line_lit(entry)

\* The file the if/else of write_map_files routes an entry to.
FileOf(entry) ==
    IF entry.test_mode
    THEN IF entry.is_regex THEN "blocked_recipients_test.pcre"
                           ELSE "blocked_recipients_test"
    ELSE IF entry.is_regex THEN "blocked_recipients.pcre"
                           ELSE "blocked_recipients"

\* LinesFor that puts each new line in front of the earlier ones.
RECURSIVE LinesFor_Reversed(_, _)
LinesFor_Reversed(entries, f) ==
    IF entries = <<>> THEN <<>>
    ELSE LET e == Head(entries)
         IN LinesFor_Reversed(Tail(entries), f) \o (IF FileOf(e) = f THEN <<LineOf(e)>> ELSE <<>>)

\* The list of lines appended for one file, in the order of the entries.
RECURSIVE LinesFor(_, _)
LinesFor(entries, f) ==
    IF entries = <<>> THEN <<>>
    ELSE LET e == Head(entries)
         IN (IF FileOf(e) = f THEN <<LineOf(e)>> ELSE <<>>) \o LinesFor(Tail(entries), f)

\* '\n'.join(lines)
RECURSIVE JoinLF(_)
JoinLF(lines) ==
    IF lines = <<>> THEN <<>>
    ELSE IF Len(lines) = 1 THEN Head(lines)
    ELSE Head(lines) \o <<LF>> \o JoinLF(Tail(lines))

\* '\n'.join(lines) + ('\n' if lines else '')
FileText(lines) == JoinLF(lines) \o (IF lines # <<>> THEN <<LF>> ELSE <<>>)

\* The four files after a complete write_map_files(entries).
RenderMaps(entries) == [f \in FileNames |-> Written(FileText(LinesFor(entries, f)))]

\* The files after write_map_files got through its first k open/write blocks:
\* the first k files of WriteOrder are rewritten, the others keep what they held.
WriteFirst(old, entries, k) ==
    [f \in FileNames |->
        IF \E i \in 1..k : WriteOrder[i] = f
        THEN Written(FileText(LinesFor(entries, f)))
        ELSE old[f]]

\* A reader's view of a file: the LF-terminated lines of its text.
RECURSIVE ReadLines(_, _)
ReadLines(text, cur) ==
    IF text = <<>> THEN (IF cur = <<>> THEN <<>> ELSE <<cur>>)
    ELSE IF Head(text) = LF THEN <<cur>> \o ReadLines(Tail(text), <<>>)
    ELSE ReadLines(Tail(text), Append(cur, Head(text)))

FileLines(file) == ReadLines(file.text, <<>>)

\* ------------------------------------------------------------ content hash
\* Python's order on str: by code point, a proper prefix first.
RECURSIVE StrLess(_, _)
StrLess(a, b) ==
    IF b = <<>> THEN FALSE
    ELSE IF a = <<>> THEN TRUE
    ELSE IF Head(a) # Head(b) THEN Head(a) < Head(b)
    ELSE StrLess(Tail(a), Tail(b))

BoolInt(b) == IF b THEN 1 ELSE 0

\* Python's order on the tuples (pattern, bool(is_regex), bool(test_mode)).
SigLess(x, y) ==
    \/ StrLess(x.pattern, y.pattern)
    \/ /\ x.pattern = y.pattern
       /\ \/ BoolInt(x.is_regex) < BoolInt(y.is_regex)
          \/ /\ x.is_regex = y.is_regex
             /\ BoolInt(x.test_mode) < BoolInt(y.test_mode)

RECURSIVE InsertSorted(_, _)
InsertSorted(x, s) ==
    IF s = <<>> THEN <<x>>
    ELSE IF SigLess(Head(s), x) \/ Head(s) = x
         THEN <<Head(s)>> \o InsertSorted(x, Tail(s))
         ELSE <<x>> \o s

\* sorted((e.pattern, bool(e.is_regex), bool(e.test_mode)) for e in entries)
RECURSIVE Sorted(_)
Sorted(entries) ==
    IF entries = <<>> THEN <<>>
    ELSE InsertSorted(Head(entries), Sorted(Tail(entries)))

RECURSIVE HashStr(_, _)
HashStr(s, acc) ==
    IF s = <<>> THEN acc
    ELSE HashStr(Tail(s), (acc * 31 + Head(s) + 1) % HashMod)

\* hash of one (pattern, is_regex, test_mode) tuple
HashItem(e) ==
    (HashStr(e.pattern, 7) * 4 + 2 * BoolInt(e.is_regex) + BoolInt(e.test_mode)) % HashMod

RECURSIVE HashSeq(_, _)
HashSeq(s, acc) ==
    IF s = <<>> THEN acc
    ELSE HashSeq(Tail(s), (acc * 31 + HashItem(Head(s))) % HashMod)

\* hash(sig): Python's hash of a tuple, a function of its items in order and of
\* its length, modelled as a polynomial hash of HashMod values.
Hash(sig) == (HashSeq(sig, 1) + Len(sig)) % HashMod

\* current_hash = hash(tuple(sorted(...))), as a present optional value
ContentHash(entries) == << Hash(Sorted(entries)) >>

\* src/app/blocker.py, the older monitor_loop:
\* current_hash = hash(tuple((e.pattern, e.is_regex) for e in entries)),
\* pairs in fetch order.
PairItem(e) == (HashStr(e.pattern, 7) * 2 + BoolInt(e.is_regex)) % HashMod

RECURSIVE PairSeq(_, _)
PairSeq(s, acc) ==
    IF s = <<>> THEN acc
    ELSE PairSeq(Tail(s), (acc * 31 + PairItem(Head(s))) % HashMod)

PairHash(entries) == << (PairSeq(entries, 1) + Len(entries)) % HashMod >>

\* The three loops of the repository that compute a content hash.
HashLoops == { "run_forever", "monitor_loop", "app.monitor_loop" }

\* ContentHash with the signature left in fetch order.
HashOf_Unsorted(loop, entries) ==
    IF loop = "app.monitor_loop" THEN PairHash(entries)
    ELSE << Hash(entries) >>

\* current_hash as the loop computes it
HashOf(loop, entries) ==
    IF loop = "app.monitor_loop" THEN PairHash(entries) ELSE ContentHash(entries)

\* ------------------------------------------------------------------ state
VARIABLES
    impl,           \* "run_forever" or "monitor_loop": the loop this process runs
    table,          \* blocked_addresses: a set of rows
    clock,          \* the last value current_timestamp handed out
    muts,           \* committed mutations so far (bounded by MaxMut)
    db_up,          \* the database answers queries
    dir_ok,         \* the output directory is writable
    files,          \* map file name -> text, or Absent
    pc,             \* position of the loop
    engine,         \* run_forever/monitor_loop local: engine is not None
    last_marker,    \* local last_marker
    last_hash,      \* local last_hash
    marker,         \* local marker of the current iteration
    entries,        \* local entries of the current iteration
    current_hash,   \* local current_hash of the current iteration
    refresh_event,  \* _refresh_event.is_set()
    it,             \* history of the current Steady iteration
    clean_done,     \* history: an iteration of this process completed without raising
    conn_failed,    \* history: an attempt of the connection phase just left failed
    restarted,      \* history: the process was started more than once
    signals,        \* history: SIGUSR1 deliveries since the flag was last cleared
    postconf,       \* host: what `postconf -m` does on this host
    pcre_probes,    \* history: runs of the capability probe in this process
    pcre_available, \* pcre_available / _PCRE_AVAILABLE
    pcre_checked,   \* _PCRE_CHECKED (monitor_loop only)
    pcre_errors,    \* log: 'Postfix PCRE support not detected' messages of this process
    regex_warnings, \* log: 'regex entries present but ... PCRE support is missing'
    regex_warned,   \* _PCRE_REGEX_WARNED (monitor_loop only)
    has_test_mode,  \* blocked_addresses has its test_mode column
    main_cf,        \* main.cf, a file of the output directory that is not a map file
    handle,         \* write_map_files: files written so far, and whether one is open
    overlap,        \* history: a map compiler ran while a map file was open
    before,         \* history: the map files as a caller of the Map Writer alone found them
    ctl,            \* the MTA Controller called on its own: arguments and result
    api,            \* the API process: its lazy database setup and its last notification
    ipc             \* the process's side of the signal IPC: PID file, handler, start-up step

vars == << impl, table, clock, muts, db_up, dir_ok, files, pc, engine,
           last_marker, last_hash, marker, entries, current_hash, refresh_event,
           it, clean_done, conn_failed, restarted, signals, postconf, pcre_probes,
           pcre_available, pcre_checked, pcre_errors, regex_warnings, regex_warned,
           has_test_mode, main_cf, handle, overlap, before, ctl, api, ipc >>

env_vars == << table, has_test_mode, clock, muts, db_up, dir_ok >>
host_vars == << clock, muts, db_up, dir_ok >>
local_vars == << marker, entries, current_hash >>
hist_vars == << clean_done, conn_failed, restarted >>
probe_vars == << pcre_probes, pcre_available, pcre_checked, pcre_errors >>
warn_vars == << regex_warnings, regex_warned >>
fs_vars == << main_cf, handle, overlap, before >>
\* What the steps of the loop other than the probe, the writer and the controller
\* leave alone.
aux_vars == << postconf, probe_vars, warn_vars, fs_vars, ctl, api, ipc >>

SteadyPcs == { "steady", "fetch", "write", "reload", "wait", "clear" }

\* main.cf as installed (its text is of no concern here: one code point).
MainCf == Written(<<35>>)

\* write_map_files is not running: no file written, none open.
NoHandle == [done |-> 0, open |-> FALSE]

\* The MTA Controller has not been called on its own.
NoCall == [fn |-> "none", args |-> << >>, done |-> FALSE, result |-> << >>]

\* The API process after create_app(): no engine, not ready (app_factory.py 79-80),
\* nothing called yet.
NoNotify == [done |-> FALSE, pid_file |-> Absent, kill |-> "ok", kills |-> << >>,
             raised |-> FALSE]
\* The threads of the API server that serve a mutating request (app.run: one
\* thread per request).
Workers == { "w1", "w2" }

\* A worker with no request in hand. put / del: the rows its transaction adds to
\* and takes from the table; intact: it committed and no transaction committed
\* after it; fresh: moreover its signal reached the blocker.
NoRequest == [phase |-> "idle", op |-> "none", put |-> {}, del |-> {},
              intact |-> FALSE, fresh |-> FALSE]

ApiBoot ==
    [ engine |-> FALSE, ready |-> FALSE, get_engine_calls |-> 0, init_db_calls |-> 0,
      calls |-> 0, ret |-> "none", was_engine |-> FALSE, was_ready |-> FALSE,
      ran_get_engine |-> FALSE, ran_init_db |-> FALSE, notify |-> NoNotify,
      req |-> [w \in Workers |-> NoRequest] ]

\* The signal IPC of a process that is through its start-up: PID file published,
\* SIGUSR1 handler installed.  step: the start-up calls made (0, 1 or both).
IpcReady == [pid_file |-> TRUE, handler |-> TRUE, step |-> "done", killed |-> FALSE]

\* The signal IPC of a process just started: nothing published, default disposition.
IpcBoot == [pid_file |-> FALSE, handler |-> FALSE, step |-> "first", killed |-> FALSE]

\* The history record of an iteration that has not started.
NoIteration ==
    [ started |-> FALSE, prev |-> FALSE, woke |-> "start",
      start_marker |-> None, start_hash |-> None,
      raised |-> FALSE, fetched |-> FALSE, skipped |-> FALSE,
      calls |-> <<>>, summary |-> <<>>,
      ctl_failed |-> FALSE, retry_due |-> FALSE, first_clean |-> FALSE ]

\* The state after construction, but for the tables of the database and the host's
\* postconf.
BootState ==
    /\ impl \in { "run_forever", "monitor_loop" }
    /\ clock = 0
    /\ muts = 0
    /\ db_up \in BOOLEAN
    /\ dir_ok = TRUE
    /\ files = [f \in FileNames |-> Absent]
    /\ pc = "boot"
    /\ engine = FALSE
    /\ last_marker = None
    /\ last_hash = None
    /\ marker = None
    /\ entries = <<>>
    /\ current_hash = None
    /\ refresh_event = FALSE
    /\ it = NoIteration
    /\ clean_done = FALSE
    /\ conn_failed = FALSE
    /\ restarted = FALSE
    /\ signals = 0
    /\ pcre_probes = 0
    /\ pcre_available = FALSE
    /\ pcre_checked = FALSE
    /\ pcre_errors = 0
    /\ regex_warnings = 0
    /\ regex_warned = FALSE
    /\ main_cf = MainCf
    /\ handle = NoHandle
    /\ overlap = FALSE
    /\ before = files
    /\ ctl = NoCall
    /\ api = ApiBoot

\* The state after construction over an empty table of the current schema, on a
\* host where `postconf -m` behaves in one of the ways of outs.
InitOn(outs) ==
    /\ BootState
    /\ ipc = IpcReady
    /\ table = {}
    /\ has_test_mode = TRUE
    /\ postconf \in outs

\* A host whose Postfix has PCRE support.
Init == InitOn({ "pcre" })

\* --------------------------------------------------------------- database
Row(id, e, ts) ==
    [ id |-> id, pattern |-> e.pattern, is_regex |-> e.is_regex,
      test_mode |-> e.test_mode, updated_at |-> ts ]

\* A row of a table created before the test_mode column existed.
LegacyRow(id, p, r, ts) == [ id |-> id, pattern |-> p, is_regex |-> r, updated_at |-> ts ]

\* ALTER TABLE blocked_addresses ADD COLUMN test_mode ... NOT NULL DEFAULT TRUE:
\* every row takes the default.
AddTestModeColumn(t) ==
    { [ id |-> row.id, pattern |-> row.pattern, is_regex |-> row.is_regex,
        test_mode |-> TRUE, updated_at |-> row.updated_at ] : row \in t }

\* init_db that replaces a table of the old schema by an empty one of the new.
init_db_Recreates(has_col, t) == IF has_col THEN t ELSE {}

\* init_db on the generic dialects: the tables are created if missing; a
\* blocked_addresses without test_mode gets the column, and the UPDATE that follows
\* (SET test_mode = 1 WHERE test_mode IS NULL) finds no row, the column being NOT NULL.
init_db(has_col, t) == IF has_col THEN t ELSE AddTestModeColumn(t)

\* BlockEntry(pattern=row[0], is_regex=row[1], test_mode=bool(row[2]))
EntryOf(row) == BlockEntry(row.pattern, row.is_regex, row.test_mode)

\* max(updated_at); the marker holds '' for it when the table has no row (here 0).
MaxUpdatedAt(t) ==
    IF t = {} THEN 0
    ELSE CHOOSE m \in { r.updated_at : r \in t } : \A r \in t : r.updated_at <= m

\* _get_change_marker / get_change_marker: (str(max_ts), cnt), or None on any error.
\* query_ok: the aggregate query ran (the column exists, no transient error).
get_change_marker(query_ok) ==
    IF db_up /\ query_ok
    THEN << MaxUpdatedAt(table), Cardinality(table) >>
    ELSE None

\* The orders in which a SELECT without ORDER BY may return the rows.
Orderings(S) ==
    { s \in [1..Cardinality(S) -> S] : \A i, j \in 1..Cardinality(S) : i # j => s[i] # s[j] }

\* _notify_blocker_refresh(): SIGUSR1 to the pid read from the PID file; a missing
\* file, a stale pid or a failed kill is swallowed, so the signal may not arrive.
notify_blocker_refresh ==
    \E sent \in BOOLEAN :
        LET delivered == sent /\ pc \notin { "boot", "crashed" } /\ signals < MaxSig
        IN /\ refresh_event' = (refresh_event \/ delivered)
           /\ signals' = (IF delivered THEN signals + 1 ELSE signals)

\* add_address: INSERT and commit; updated_at takes current_timestamp; then the
\* refresh notification.
add_address(e) ==
    /\ db_up
    /\ has_test_mode
    /\ muts < MaxMut
    /\ clock' = clock + 1
    /\ muts' = muts + 1
    /\ table' = table \cup { Row(clock + 1, e, clock + 1) }
    /\ notify_blocker_refresh
    /\ UNCHANGED << impl, aux_vars, has_test_mode, db_up, dir_ok, files, pc, engine,
                    last_marker,
                    last_hash, local_vars, it, hist_vars >>

\* update_address: UPDATE ... WHERE id = entry_id and commit; onupdate sets updated_at;
\* then the refresh notification.
update_address(row, e) ==
    /\ db_up
    /\ has_test_mode
    /\ muts < MaxMut
    /\ row \in table
    /\ clock' = clock + 1
    /\ muts' = muts + 1
    /\ table' = (table \ { row }) \cup { Row(row.id, e, clock + 1) }
    /\ notify_blocker_refresh
    /\ UNCHANGED << impl, aux_vars, has_test_mode, db_up, dir_ok, files, pc, engine,
                    last_marker,
                    last_hash, local_vars, it, hist_vars >>

\* delete_address: DELETE ... WHERE id = entry_id and commit; then the refresh
\* notification.
delete_address(row) ==
    /\ db_up
    /\ has_test_mode
    /\ muts < MaxMut
    /\ row \in table
    /\ muts' = muts + 1
    /\ table' = table \ { row }
    /\ notify_blocker_refresh
    /\ UNCHANGED << impl, aux_vars, has_test_mode, clock, db_up, dir_ok, files, pc, engine,
                    last_marker,
                    last_hash, local_vars, it, hist_vars >>

\* ------------------------------------------------------------ environment
DbToggle ==
    /\ db_up' = ~db_up
    /\ UNCHANGED << impl, signals, aux_vars, table, has_test_mode, clock, muts, dir_ok, files,
                    pc, engine,
                    last_marker, last_hash, local_vars, refresh_event, it, hist_vars >>

DirToggle ==
    /\ dir_ok' = ~dir_ok
    /\ UNCHANGED << impl, signals, aux_vars, table, has_test_mode, clock, muts, db_up, files,
                    pc, engine,
                    last_marker, last_hash, local_vars, refresh_event, it, hist_vars >>

\* SIGUSR1 handled by the installed handler: _refresh_event.set()
Signal ==
    /\ pc \notin { "boot", "crashed" }
    /\ signals < MaxSig
    /\ refresh_event' = TRUE
    /\ signals' = signals + 1
    /\ UNCHANGED << impl, aux_vars, env_vars, files, pc, engine, last_marker, last_hash,
                    local_vars, it, hist_vars >>

\* The supervisor ends the process and starts it again: all loop state is in memory.
Restart ==
    /\ pc # "boot"
    /\ pc' = "boot"
    /\ engine' = FALSE
    /\ last_marker' = None
    /\ last_hash' = None
    /\ marker' = None
    /\ entries' = <<>>
    /\ current_hash' = None
    /\ refresh_event' = FALSE
    /\ it' = NoIteration
    /\ clean_done' = FALSE
    /\ conn_failed' = FALSE
    /\ restarted' = TRUE
    /\ signals' = 0
    /\ pcre_probes' = 0
    /\ pcre_available' = FALSE
    /\ pcre_checked' = FALSE
    /\ pcre_errors' = 0
    /\ regex_warnings' = 0
    /\ regex_warned' = FALSE
    /\ UNCHANGED << impl, postconf, fs_vars, ctl, api, ipc, env_vars, files >>

\* ------------------------------------------------------------------- loop
\* What `postconf -m` may do: list pcre, list the map types without pcre, exit
\* non-zero, or not be there to launch.
PostconfOutcomes == { "pcre", "plain", "nonzero", "missing" }

\* has_postfix_pcre / _has_postfix_pcre: 'pcre' in stdout; check=True turns a non-zero
\* exit into an exception, and every exception gives False.
has_postfix_pcre(out) == [value |-> (out = "pcre"), raised |-> FALSE]

\* One run of `postconf -m` on this host, its answer kept as the capability flag.
Probe ==
    /\ pcre_probes' = pcre_probes + 1
    /\ pcre_available' = has_postfix_pcre(postconf).value
    /\ pcre_errors' = (IF has_postfix_pcre(postconf).value
                       THEN pcre_errors ELSE pcre_errors + 1)

\* A start-up that probes in both loops, before the first connection attempt.
Startup_AlwaysProbes ==
    /\ pc = "boot"
    /\ pc' = "connect"
    /\ Probe
    /\ UNCHANGED << impl, signals, postconf, pcre_checked, warn_vars, fs_vars, ctl, api, ipc, env_vars,
                    files, engine, last_marker, last_hash, local_vars, refresh_event, it,
                    hist_vars >>

\* __main__ / start of run_forever, once the PID file and the signal handler are
\* dealt with: run_forever runs the capability probe, before its first connection
\* attempt.
Startup ==
    /\ pc = "boot"
    /\ ipc.step = "done"
    /\ pc' = "connect"
    /\ IF impl = "run_forever"
       THEN Probe
       ELSE UNCHANGED << pcre_probes, pcre_available, pcre_errors >>
    /\ UNCHANGED << impl, signals, postconf, pcre_checked, warn_vars, fs_vars, ctl, api, ipc, env_vars, files,
                    engine, last_marker, last_hash, local_vars, refresh_event, it,
                    hist_vars >>

\* Connect with a bound on the retries: a second failed attempt is raised.
Connect_GivesUp ==
    /\ pc = "connect"
    /\ IF db_up
       THEN /\ engine' = TRUE
            /\ pc' = "steady"
            /\ last_marker' = None
            /\ last_hash' = None
            /\ refresh_event' = (IF impl = "run_forever" THEN FALSE ELSE refresh_event)
            /\ signals' = (IF impl = "run_forever" THEN 0 ELSE signals)
            /\ it' = NoIteration
            /\ table' = init_db(has_test_mode, table)
            /\ has_test_mode' = TRUE
            /\ IF impl = "monitor_loop" /\ ~pcre_checked
               THEN Probe /\ pcre_checked' = TRUE
               ELSE UNCHANGED probe_vars
            /\ UNCHANGED conn_failed
       ELSE /\ \E created \in BOOLEAN :
                 /\ engine => created
                 /\ engine' = created
            /\ pc' = (IF conn_failed THEN "crashed" ELSE "retry")
            /\ conn_failed' = TRUE
            /\ UNCHANGED << last_marker, last_hash, refresh_event, signals, it,
                            probe_vars, table, has_test_mode >>
    /\ UNCHANGED << impl, postconf, warn_vars, fs_vars, ctl, api, ipc, host_vars, files, local_vars,
                    clean_done, restarted >>

\* Connect with the capability probe inside the retry loop: every attempt probes.
Connect_ProbesEachAttempt ==
    /\ pc = "connect"
    /\ Probe
    /\ pcre_checked' = (impl = "monitor_loop")
    /\ IF db_up
       THEN /\ engine' = TRUE
            /\ pc' = "steady"
            /\ last_marker' = None
            /\ last_hash' = None
            /\ refresh_event' = (IF impl = "run_forever" THEN FALSE ELSE refresh_event)
            /\ signals' = (IF impl = "run_forever" THEN 0 ELSE signals)
            /\ it' = NoIteration
            /\ table' = init_db(has_test_mode, table)
            /\ has_test_mode' = TRUE
            /\ UNCHANGED conn_failed
       ELSE /\ \E created \in BOOLEAN :
                 /\ engine => created
                 /\ engine' = created
            /\ pc' = "retry"
            /\ conn_failed' = TRUE
            /\ UNCHANGED << last_marker, last_hash, refresh_event, signals, it, table,
                            has_test_mode >>
    /\ UNCHANGED << impl, postconf, warn_vars, fs_vars, ctl, api, ipc, host_vars, files, local_vars,
                    clean_done, restarted >>

\* One pass of the first while True: get_engine() when engine is None, init_db(engine),
\* break on success; any exception is logged and followed by time.sleep.
\* After the break: last_marker = None, last_hash = None (and, in run_forever,
\* _refresh_event.clear()).
Connect ==
    /\ pc = "connect"
    /\ IF db_up
       THEN /\ engine' = TRUE
            /\ pc' = "steady"
            /\ last_marker' = None
            /\ last_hash' = None
            /\ refresh_event' = (IF impl = "run_forever" THEN FALSE ELSE refresh_event)
            /\ signals' = (IF impl = "run_forever" THEN 0 ELSE signals)
            /\ it' = NoIteration
            /\ table' = init_db(has_test_mode, table)
            /\ has_test_mode' = TRUE
            /\ IF impl = "monitor_loop" /\ ~pcre_checked
               THEN Probe /\ pcre_checked' = TRUE
               ELSE UNCHANGED probe_vars
            /\ UNCHANGED conn_failed
       ELSE /\ \E created \in BOOLEAN :
                 /\ engine => created
                 /\ engine' = created
            /\ pc' = "retry"
            /\ conn_failed' = TRUE
            /\ UNCHANGED << last_marker, last_hash, refresh_event, signals, it,
                            probe_vars, table, has_test_mode >>
    /\ UNCHANGED << impl, postconf, warn_vars, fs_vars, ctl, api, ipc, host_vars, files, local_vars,
                    clean_done, restarted >>

\* time.sleep(check_interval) after a failed attempt
RetrySleep ==
    /\ pc = "retry"
    /\ pc' = "connect"
    /\ UNCHANGED << impl, signals, aux_vars, env_vars, files, engine, last_marker, last_hash, local_vars,
                    refresh_event, it, hist_vars >>

\* The iteration is over and the loop is at its wait: close the iteration's history.
EndIteration(rec) ==
    /\ it' = [rec EXCEPT !.first_clean = (~clean_done /\ ~rec.raised)]
    /\ clean_done' = (clean_done \/ ~rec.raised)

\* Caught with the exception left to propagate out of the loop.
Caught_Propagates ==
    /\ pc' = "crashed"
    /\ UNCHANGED << last_marker, last_hash >>

\* Caught with the fingerprint recorded on the way out (as a finally clause would).
Caught_Records ==
    /\ pc' = "wait"
    /\ last_marker' = marker
    /\ last_hash' = current_hash

\* except SAOperationalError / except Exception of the Steady loop: log, fall through
\* to _refresh_event.wait; last_marker and last_hash are not assigned.
Caught ==
    /\ pc' = "wait"
    /\ UNCHANGED << last_marker, last_hash >>

\* monitor_loop only: `if marker is not None and marker == last_marker: ... continue`
SkipUnchanged(m) ==
    /\ impl = "monitor_loop"
    /\ m # None
    /\ m = last_marker

\* ShouldApply without the content-hash fallback.
ShouldApply_MarkerOnly(m, h) == (m # None /\ m # last_marker)

\* ShouldApply that applies in every iteration.
ShouldApply_Always(m, h) == TRUE

\* ShouldApply that takes an empty table for "nothing to write".
ShouldApply_EmptyIsNoChange(m, h) ==
    /\ h # ContentHash(<<>>)
    /\ \/ (m # None /\ m # last_marker)
       \/ IF impl = "run_forever"
          THEN h # last_hash
          ELSE (m = None /\ h # last_hash)

\* ShouldApply that lets an iteration woken by the refresh signal apply unconditionally.
ShouldApply_SignalForces(m, h) ==
    \/ it.woke = "signal"
    \/ (m # None /\ m # last_marker)
    \/ IF impl = "run_forever"
       THEN h # last_hash
       ELSE (m = None /\ h # last_hash)

\* The condition guarding write_map_files/reload_postfix.
\*   run_forever:  (marker is not None and marker != last_marker) or (current_hash != last_hash)
\*   monitor_loop: (marker is not None and marker != last_marker)
\*                 or (marker is None and current_hash != last_hash)
ShouldApply(m, h) ==
    \/ (m # None /\ m # last_marker)
    \/ IF impl = "run_forever"
       THEN h # last_hash
       ELSE (m = None /\ h # last_hash)

\* IterationStart with a marker query whose failure is an exception of the
\* iteration.
IterationStart_MarkerRaises ==
    /\ pc = "steady"
    /\ \E query_ok \in BOOLEAN :
       LET m == get_change_marker(query_ok)
           rec == [NoIteration EXCEPT !.started = TRUE,
                                      !.prev = it.started,
                                      !.woke = it.woke,
                                      !.start_marker = last_marker,
                                      !.start_hash = last_hash,
                                      !.retry_due = it.ctl_failed]
       IN /\ marker' = m
          /\ entries' = <<>>
          /\ current_hash' = None
          /\ conn_failed' = FALSE
          /\ IF m = None
             THEN /\ pc' = "wait"
                  /\ EndIteration([rec EXCEPT !.raised = TRUE])
             ELSE IF SkipUnchanged(m)
             THEN /\ pc' = "wait"
                  /\ EndIteration([rec EXCEPT !.skipped = TRUE])
             ELSE /\ pc' = "fetch"
                  /\ it' = rec
                  /\ UNCHANGED clean_done
    /\ UNCHANGED << impl, signals, aux_vars, env_vars, files, engine, last_marker, last_hash,
                    refresh_event, restarted >>

\* Start of a Steady iteration: heartbeat, get_prop (its errors are swallowed),
\* the marker query, and monitor_loop's early `continue`.
IterationStart ==
    /\ pc = "steady"
    /\ \E query_ok \in BOOLEAN :
       LET m == get_change_marker(query_ok)
           rec == [NoIteration EXCEPT !.started = TRUE,
                                      !.prev = it.started,
                                      !.woke = it.woke,
                                      !.start_marker = last_marker,
                                      !.start_hash = last_hash,
                                      !.retry_due = it.ctl_failed]
       IN /\ marker' = m
          /\ entries' = <<>>
          /\ current_hash' = None
          /\ conn_failed' = FALSE
          /\ IF SkipUnchanged(m)
             THEN /\ pc' = "wait"
                  /\ EndIteration([rec EXCEPT !.skipped = TRUE])
             ELSE /\ pc' = "fetch"
                  /\ it' = rec
                  /\ UNCHANGED clean_done
    /\ UNCHANGED << impl, signals, aux_vars, env_vars, files, engine, last_marker, last_hash,
                    refresh_event, restarted >>

\* regex_count = sum(1 for e in entries if e.is_regex)
RegexCount(es) == Cardinality({ i \in 1..Len(es) : es[i].is_regex })

\* The regex warning without its one-time flag: every fetch that sees a regex entry
\* warns.
WarnUnenforced_EveryFetch(es) ==
    IF impl = "monitor_loop" /\ ~pcre_available /\ RegexCount(es) > 0
    THEN /\ regex_warnings' = regex_warnings + 1
         /\ UNCHANGED regex_warned
    ELSE UNCHANGED warn_vars

\* monitor_loop, after the fetch: warn once if regex entries exist but PCRE is
\* unavailable. run_forever has no such step.
WarnUnenforced(es) ==
    IF impl = "monitor_loop" /\ ~pcre_available /\ ~regex_warned /\ RegexCount(es) > 0
    THEN /\ regex_warnings' = regex_warnings + 1
         /\ regex_warned' = TRUE
    ELSE UNCHANGED warn_vars

\* _fetch_entries / fetch_entries, the signature and hash, and the if.
FetchEntries ==
    /\ pc = "fetch"
    /\ IF db_up
       THEN \E order \in Orderings(table) :
              LET es == [i \in 1..Cardinality(table) |-> EntryOf(order[i])]
                  h == ContentHash(es)
              IN /\ entries' = es
                 /\ WarnUnenforced(es)
                 /\ current_hash' = h
                 /\ UNCHANGED << last_marker, last_hash >>
                 /\ IF ShouldApply(marker, h)
                    THEN /\ pc' = "write"
                         /\ it' = [it EXCEPT !.fetched = TRUE]
                         /\ UNCHANGED clean_done
                    ELSE /\ pc' = "wait"
                         /\ EndIteration([it EXCEPT !.fetched = TRUE])
       ELSE /\ Caught
            /\ EndIteration([it EXCEPT !.raised = TRUE])
            /\ UNCHANGED << entries, current_hash, warn_vars >>
    /\ UNCHANGED << impl, signals, postconf, probe_vars, fs_vars, ctl, api, ipc, env_vars, files,
                    engine, marker, refresh_event, conn_failed, restarted >>

\* WriteMaps with a writer that empties main.cf on its way.
WriteMaps_TruncatesMainCf ==
    /\ pc = "write"
    /\ dir_ok
    /\ files' = RenderMaps(entries)
    /\ main_cf' = Written(<< >>)
    /\ pc' = "reload"
    /\ it' = [it EXCEPT !.calls = Append(@, "write_map_files")]
    /\ UNCHANGED << impl, signals, postconf, probe_vars, warn_vars, handle, overlap, before, ctl, api, ipc,
                    env_vars, engine, last_marker, last_hash,
                    local_vars, refresh_event, hist_vars >>

\* WriteMaps with a writer that leaves alone a file it has no line for.
WriteMaps_SkipsEmpty ==
    /\ pc = "write"
    /\ dir_ok
    /\ files' = [f \in FileNames |->
                    IF LinesFor(entries, f) = << >> THEN files[f]
                    ELSE Written(FileText(LinesFor(entries, f)))]
    /\ pc' = "reload"
    /\ it' = [it EXCEPT !.calls = Append(@, "write_map_files")]
    /\ UNCHANGED << impl, signals, aux_vars, env_vars, engine, last_marker, last_hash,
                    local_vars, refresh_event, hist_vars >>

\* WriteMaps with the files opened for appending ('a') instead of writing ('w').
WriteMaps_Appends ==
    /\ pc = "write"
    /\ dir_ok
    /\ files' = [f \in FileNames |->
                    Written(files[f].text \o FileText(LinesFor(entries, f)))]
    /\ pc' = "reload"
    /\ it' = [it EXCEPT !.calls = Append(@, "write_map_files")]
    /\ UNCHANGED << impl, signals, aux_vars, env_vars, engine, last_marker, last_hash,
                    local_vars, refresh_event, hist_vars >>

\* write_map_files(entries): the four files are opened for writing one after the other;
\* an OSError of the k+1st open leaves the first k rewritten and is raised.
WriteMaps ==
    /\ pc = "write"
    /\ IF dir_ok
       THEN /\ files' = RenderMaps(entries)
            /\ pc' = "reload"
            /\ it' = [it EXCEPT !.calls = Append(@, "write_map_files")]
            /\ UNCHANGED << last_marker, last_hash, clean_done >>
       ELSE /\ \E k \in 0..3 : files' = WriteFirst(files, entries, k)
            /\ Caught
            /\ EndIteration([it EXCEPT !.calls = Append(@, "write_map_files"),
                                       !.raised = TRUE])
    /\ UNCHANGED << impl, signals, aux_vars, env_vars, engine, local_vars, refresh_event,
                    conn_failed, restarted >>

\* Exit statuses of an external command: 0, non-zero, or -1 for one that cannot be
\* launched (subprocess.run raises).
ExitCodes == { 0, 1, -1 }

\* reload_postfix(): postmap on both literal files, postfix status, and postfix reload
\* only when the status is 0.  A command that cannot be launched ends the function in
\* its except clause (the status command's own except gives status_rc = 1).
\* cmds: the commands run; failed: a compiler or reload run failed; raised: an
\* exception leaves the function.
\* reload_postfix that issues the reload whatever the status command says.
reload_postfix_ReloadsAlways(rc1, rc1b, st, rc2) ==
    IF rc1 = -1
    THEN [cmds |-> << "postmap" >>, failed |-> TRUE, raised |-> FALSE]
    ELSE IF rc1b = -1
    THEN [cmds |-> << "postmap", "postmap_test" >>, failed |-> TRUE, raised |-> FALSE]
    ELSE [cmds |-> << "postmap", "postmap_test", "status", "reload" >>,
          failed |-> (rc1 # 0 \/ rc1b # 0 \/ rc2 # 0), raised |-> FALSE]

\* reload_postfix without the outer try/except: a command that cannot be launched
\* raises to the caller.
reload_postfix_Propagates(rc1, rc1b, st, rc2) ==
    IF rc1 = -1
    THEN [cmds |-> << "postmap" >>, failed |-> TRUE, raised |-> TRUE]
    ELSE IF rc1b = -1
    THEN [cmds |-> << "postmap", "postmap_test" >>, failed |-> TRUE, raised |-> TRUE]
    ELSE LET status_rc == IF st = -1 THEN 1 ELSE st
         IN IF status_rc = 0
            THEN [cmds |-> << "postmap", "postmap_test", "status", "reload" >>,
                  failed |-> (rc1 # 0 \/ rc1b # 0 \/ rc2 # 0), raised |-> (rc2 = -1)]
            ELSE [cmds |-> << "postmap", "postmap_test", "status" >>,
                  failed |-> (rc1 # 0 \/ rc1b # 0), raised |-> FALSE]

reload_postfix(rc1, rc1b, st, rc2) ==
    IF rc1 = -1
    THEN [cmds |-> << "postmap" >>, failed |-> TRUE, raised |-> FALSE]
    ELSE IF rc1b = -1
    THEN [cmds |-> << "postmap", "postmap_test" >>, failed |-> TRUE, raised |-> FALSE]
    ELSE LET status_rc == IF st = -1 THEN 1 ELSE st
         IN IF status_rc = 0
            THEN [cmds |-> << "postmap", "postmap_test", "status", "reload" >>,
                  failed |-> (rc1 # 0 \/ rc1b # 0 \/ rc2 # 0), raised |-> FALSE]
            ELSE [cmds |-> << "postmap", "postmap_test", "status" >>,
                  failed |-> (rc1 # 0 \/ rc1b # 0), raised |-> FALSE]

\* logging.info('BLOCKER_APPLY maps_updated total_entries=%s marker=%s hash=%s', ...):
\* run_forever's line after reload_postfix(); monitor_loop has no such statement.
\* lines: the pass-summary lines of the iteration so far.
ApplyLog(lines) ==
    IF impl = "run_forever"
    THEN Append(lines, [total |-> Len(entries), marker |-> marker, hash |-> current_hash])
    ELSE lines

\* ReloadPostfix that records as last-seen a marker queried anew after the pass, not
\* the one read before the fetch.
ReloadPostfix_RereadsMarker ==
    /\ pc = "reload"
    /\ \E rc1, rc1b, st, rc2 \in ExitCodes :
         LET r == reload_postfix(rc1, rc1b, st, rc2)
         IN IF r.raised
            THEN /\ Caught
                 /\ EndIteration([it EXCEPT !.calls = Append(@, "reload_postfix"),
                                            !.ctl_failed = r.failed,
                                            !.raised = TRUE])
            ELSE /\ EndIteration([it EXCEPT !.calls = Append(@, "reload_postfix"),
                                            !.summary = ApplyLog(@),
                                            !.ctl_failed = r.failed])
                 /\ last_hash' = current_hash
                 /\ last_marker' = get_change_marker(TRUE)
                 /\ pc' = "wait"
    /\ overlap' = (overlap \/ handle.open)
    /\ UNCHANGED << impl, signals, postconf, probe_vars, warn_vars, main_cf, handle, before, ctl, api, ipc, env_vars, files, engine, local_vars, refresh_event,
                    conn_failed, restarted >>

\* reload_postfix(), the pass-summary line and the two assignments that follow it.
ReloadPostfix ==
    /\ pc = "reload"
    /\ \E rc1, rc1b, st, rc2 \in ExitCodes :
         LET r == reload_postfix(rc1, rc1b, st, rc2)
         IN IF r.raised
            THEN /\ Caught
                 /\ EndIteration([it EXCEPT !.calls = Append(@, "reload_postfix"),
                                            !.ctl_failed = r.failed,
                                            !.raised = TRUE])
            ELSE /\ EndIteration([it EXCEPT !.calls = Append(@, "reload_postfix"),
                                            !.summary = ApplyLog(@),
                                            !.ctl_failed = r.failed])
                 /\ last_hash' = current_hash
                 /\ last_marker' = marker
                 /\ pc' = "wait"
    /\ overlap' = (overlap \/ handle.open)
    /\ UNCHANGED << impl, signals, postconf, probe_vars, warn_vars, main_cf, handle, before, ctl, api, ipc, env_vars, files, engine, local_vars, refresh_event,
                    conn_failed, restarted >>

\* A wait that sleeps the whole interval whether the flag is set or not (time.sleep).
WaitTimeout_IgnoresFlag ==
    /\ pc = "wait"
    /\ pc' = "clear"
    /\ it' = [it EXCEPT !.woke = "timeout"]
    /\ UNCHANGED << impl, signals, aux_vars, env_vars, files, engine, last_marker, last_hash,
                    local_vars, refresh_event, hist_vars >>

\* _refresh_event.wait(check_interval) returns at the timeout, the flag not set
WaitTimeout ==
    /\ pc = "wait"
    /\ ~refresh_event
    /\ pc' = "clear"
    /\ it' = [it EXCEPT !.woke = "timeout"]
    /\ UNCHANGED << impl, signals, aux_vars, env_vars, files, engine, last_marker, last_hash, local_vars,
                    refresh_event, hist_vars >>

\* _refresh_event.wait(check_interval) returns because the flag is set
WaitWake ==
    /\ pc = "wait"
    /\ refresh_event
    /\ pc' = "clear"
    /\ it' = [it EXCEPT !.woke = "signal"]
    /\ UNCHANGED << impl, signals, aux_vars, env_vars, files, engine, last_marker, last_hash, local_vars,
                    refresh_event, hist_vars >>

\* ClearEvent for a flag that counts: one wake-up consumes one signal only.
ClearEvent_ConsumesOne ==
    /\ pc = "clear"
    /\ signals' = (IF signals > 0 THEN signals - 1 ELSE 0)
    /\ refresh_event' = (signals > 1)
    /\ pc' = "steady"
    /\ UNCHANGED << impl, aux_vars, env_vars, files, engine, last_marker, last_hash, local_vars,
                    it, hist_vars >>

\* if _refresh_event.is_set(): _refresh_event.clear()
ClearEvent ==
    /\ pc = "clear"
    /\ refresh_event' = FALSE
    /\ signals' = 0
    /\ pc' = "steady"
    /\ UNCHANGED << impl, aux_vars, env_vars, files, engine, last_marker, last_hash, local_vars,
                    it, hist_vars >>

\* The steps of the reconciliation process itself.
LoopStep ==
    \/ Startup
    \/ Connect
    \/ RetrySleep
    \/ IterationStart
    \/ FetchEntries
    \/ WriteMaps
    \/ ReloadPostfix
    \/ WaitTimeout
    \/ WaitWake
    \/ ClearEvent

\* The API's committed mutations of the table.
Mutate ==
    \/ \E e \in Rules : add_address(e)
    \/ \E row \in table, e \in Rules : update_address(row, e)
    \/ \E row \in table : delete_address(row)

Next ==
    \/ LoopStep
    \/ Mutate
    \/ Signal
    \/ Restart
    \/ DbToggle
    \/ DirToggle

Spec == Init /\ [][Next]_vars

\* One lifetime of the process with a writable output directory: the loop keeps taking
\* steps (it is the only thread of its process and its wait has a timeout), while the
\* administrators, the signal and the database come and go as they please.
LiveNext ==
    \/ LoopStep
    \/ Mutate
    \/ Signal
    \/ DbToggle

LiveSpec == Init /\ [][LiveNext]_vars /\ WF_vars(LoopStep)

\* ------------------------------------------- the output directory of a pass
\* An environment variable that is not set; run_forever called without a Config.
Unset == "<unset>"
NoConfig == "<none>"

\* Values of POSTFIX_DIR in the process environment, and of Config.postfix_dir in
\* a Config passed to run_forever.
EnvDirs == { Unset, "", "/etc/postfix", "/srv/a" }
ConfigDirs == { NoConfig, "", "/etc/postfix", "/srv/a", "/srv/b" }

\* os.environ.get('POSTFIX_DIR', '/etc/postfix')
EnvPostfixDir(env) == IF env = Unset THEN "/etc/postfix" ELSE env

\* load_config().postfix_dir
load_config(env) == EnvPostfixDir(env)

\* Path(d) / name and os.path.join(d, name) name the same file; an empty d is
\* the working directory.
PathIn(d, name) == << (IF d = "" THEN "." ELSE d), name >>

\* The files write_map_files opens in a pass of the loop.
\*   run_forever:  write_map_files(entries, cfg.postfix_dir), cfg = config or
\*                 load_config(); pdir = postfix_dir or os.environ.get(...)
\*   monitor_loop: os.path.join(POSTFIX_DIR, ...), the module's constant
WriterPaths(loop, env, cfg) ==
    LET cfg_dir == IF cfg = NoConfig THEN load_config(env) ELSE cfg
        pdir == IF loop = "run_forever"
                THEN (IF cfg_dir = "" THEN EnvPostfixDir(env) ELSE cfg_dir)
                ELSE EnvPostfixDir(env)
    IN { PathIn(pdir, f) : f \in FileNames }

\* The files reload_postfix() hands to postmap: the two literal maps under
\* os.environ.get('POSTFIX_DIR', '/etc/postfix') (control.py), under POSTFIX_DIR
\* (blocker.py).
CompilerPaths(loop, env) ==
    { PathIn(EnvPostfixDir(env), "blocked_recipients"),
      PathIn(EnvPostfixDir(env), "blocked_recipients_test") }

\* The passes a loop can be set up for: monitor_loop takes no Config.
PassCalls ==
    { [fn |-> "pass", args |-> << env, cfg >>, done |-> FALSE,
       result |-> [written |-> {}, compiled |-> {}]] :
         env \in EnvDirs,
         cfg \in IF impl = "run_forever" THEN ConfigDirs ELSE { NoConfig } }

dir_frame == << impl, signals, postconf, probe_vars, warn_vars, fs_vars, api, ipc, env_vars,
               files, pc, engine, last_marker, last_hash, local_vars, refresh_event, it,
               hist_vars >>

\* The process is started in some environment, run_forever with or without a Config.
DirSetUp ==
    /\ ctl = NoCall
    /\ ctl' \in PassCalls
    /\ UNCHANGED dir_frame

\* write_map_files of the pass.
DirWrite ==
    /\ ctl.fn = "pass"
    /\ ctl.result.written = {}
    /\ ctl' = [ctl EXCEPT !.result.written = WriterPaths(impl, ctl.args[1], ctl.args[2])]
    /\ UNCHANGED dir_frame

\* reload_postfix of the pass.
DirCompile ==
    /\ ctl.fn = "pass"
    /\ ctl.result.written # {}
    /\ ~ctl.done
    /\ ctl' = [ctl EXCEPT !.done = TRUE,
                          !.result.compiled = CompilerPaths(impl, ctl.args[1])]
    /\ UNCHANGED dir_frame

DirNext == DirSetUp \/ DirWrite \/ DirCompile

DirSpec == Init /\ [][DirNext]_vars

\* ------------------------------------------------------ the process boundary
\* The two start-up calls in the order of the entry point: run_forever writes the
\* PID file, then installs the handler; blocker.py's __main__ installs the handler,
\* then writes the PID file.
StartupCalls ==
    IF impl = "run_forever"
    THEN << "write_pid_file", "setup_signal_ipc" >>
    ELSE << "setup_signal_ipc", "write_pid_file" >>

\* The start-up call that is due.
StartupCall ==
    IF ipc.step = "first" THEN StartupCalls[1]
    ELSE IF ipc.step = "second" THEN StartupCalls[2]
    ELSE "none"

NextStep == IF ipc.step = "first" THEN "second" ELSE "done"

\* What the start-up calls and the API's kill leave alone.
ipc_frame == << impl, postconf, probe_vars, warn_vars, fs_vars, ctl, api, env_vars, files,
               engine, last_marker, last_hash, local_vars, it, hist_vars >>

\* write_pid_file / _write_pid_file: makedirs, open, write str(os.getpid()); an
\* exception is logged and the file is not written.
WritePidFile ==
    /\ pc = "boot"
    /\ StartupCall = "write_pid_file"
    /\ \E ok \in BOOLEAN :
         ipc' = [ipc EXCEPT !.pid_file = ok, !.step = NextStep]
    /\ UNCHANGED << ipc_frame, pc, refresh_event, signals >>

\* setup_signal_ipc / _setup_signal_ipc: signal.signal(SIGUSR1, handler).
SetupSignalIpc ==
    /\ pc = "boot"
    /\ StartupCall = "setup_signal_ipc"
    /\ ipc' = [ipc EXCEPT !.handler = TRUE, !.step = NextStep]
    /\ UNCHANGED << ipc_frame, pc, refresh_event, signals >>

\* The API's os.kill(pid, SIGUSR1) with the pid of the PID file: the handler sets
\* _refresh_event; a process without a handler for SIGUSR1 is terminated by it.
KillUsr1 ==
    /\ ipc.pid_file
    /\ pc # "crashed"
    /\ signals < MaxSig
    /\ IF ipc.handler
       THEN /\ refresh_event' = TRUE
            /\ signals' = signals + 1
            /\ UNCHANGED << pc, ipc >>
       ELSE /\ pc' = "crashed"
            /\ ipc' = [ipc EXCEPT !.killed = TRUE]
            /\ UNCHANGED << refresh_event, signals >>
    /\ UNCHANGED ipc_frame

\* A process from its very start, over an empty table.
BootInit ==
    /\ BootState
    /\ ipc = IpcBoot
    /\ table = {}
    /\ has_test_mode = TRUE
    /\ postconf = "pcre"

BootNext ==
    \/ WritePidFile
    \/ SetupSignalIpc
    \/ KillUsr1
    \/ LoopStep

BootSpec == BootInit /\ [][BootNext]_vars

\* ------------------------------------------------------- the Refresh Trigger
\* The loop and the signal over a database that comes and goes; the loop keeps
\* taking steps.
SignalNext ==
    \/ LoopStep
    \/ Signal
    \/ DbToggle

SignalSpec == Init /\ [][SignalNext]_vars /\ WF_vars(LoopStep)

\* ------------------------------------------------- the Change Detector's loop
\* The loop, the administrators and a database that comes and goes: one process,
\* no signal but the API's.
DetectNext ==
    \/ LoopStep
    \/ Mutate
    \/ DbToggle

DetectSpec == Init /\ [][DetectNext]_vars

\* ------------------------------------------- the capability probe's lifetime
\* The MTA installation changes under the running process (a package is added or
\* removed, postconf disappears).
PostconfChange ==
    /\ \E out \in PostconfOutcomes \ { postconf } : postconf' = out
    /\ UNCHANGED << impl, signals, probe_vars, warn_vars, fs_vars, ctl, api, ipc, env_vars, files, pc,
                    engine,
                    last_marker, last_hash, local_vars, refresh_event, it, hist_vars >>

\* Processes that start, retry their connection, iterate and are restarted, on a
\* host whose MTA installation changes; the table stays as it is.
ProbeNext ==
    \/ LoopStep
    \/ Signal
    \/ Restart
    \/ DbToggle
    \/ PostconfChange

ProbeSpec == Init /\ [][ProbeNext]_vars

\* ------------------------------------------ regex rules on a host without PCRE
\* Processes on hosts with and without PCRE support, administrators editing the
\* table, restarts.
WarnNext ==
    \/ LoopStep
    \/ Mutate
    \/ Signal
    \/ Restart

WarnSpec == InitOn({ "pcre", "plain" }) /\ [][WarnNext]_vars

\* ------------------------------------------------------- the API process
\* str.strip(): leading and trailing white space removed.
IsSpace(c) == c \in { SPACE, LF, TAB }

RECURSIVE LStrip(_)
LStrip(t) == IF t # << >> /\ IsSpace(Head(t)) THEN LStrip(Tail(t)) ELSE t

RECURSIVE RStrip(_)
RStrip(t) ==
    IF t # << >> /\ IsSpace(t[Len(t)]) THEN RStrip(SubSeq(t, 1, Len(t) - 1)) ELSE t

Strip(t) == RStrip(LStrip(t))

IsDigits(t) == t # << >> /\ \A i \in 1..Len(t) : t[i] \in 48..57

\* int(pid_s) of a text of decimal digits
RECURSIVE ParseInt(_, _)
ParseInt(t, acc) ==
    IF t = << >> THEN acc ELSE ParseInt(Tail(t), acc * 10 + (Head(t) - 48))

\* What the PID file may hold: nothing, a line feed, 'x', '42', '42<LF>', ' 7',
\* '4 2'; or there is no file.
PidFiles ==
    { Absent } \cup
    { Written(t) : t \in { << >>, << LF >>, << 120 >>, << 52, 50 >>, << 52, 50, LF >>,
                           << SPACE, 55 >>, << 52, SPACE, 50 >> } }

\* os.kill(pid, SIGUSR1): delivered, ProcessLookupError, PermissionError.
KillOutcomes == { "ok", "no_process", "denied" }

\* _notify_blocker_refresh without its try/except.
notify_call_Unguarded(pid_file, kill) ==
    IF ~pid_file.exists
    THEN [kills |-> << >>, raised |-> TRUE]
    ELSE LET pid_s == Strip(pid_file.text)
         IN IF pid_s = << >> THEN [kills |-> << >>, raised |-> FALSE]
            ELSE IF ~IsDigits(pid_s) THEN [kills |-> << >>, raised |-> TRUE]
            ELSE [kills |-> << ParseInt(pid_s, 0) >>, raised |-> (kill # "ok")]

\* _notify_blocker_refresh(): read the PID file, strip, return if empty, int(),
\* os.kill(pid, SIGUSR1); every exception is logged at debug level and dropped.
\* kills: the pids os.kill was called with.
notify_call(pid_file, kill) ==
    IF ~pid_file.exists
    THEN [kills |-> << >>, raised |-> FALSE]
    ELSE LET pid_s == Strip(pid_file.text)
         IN IF pid_s = << >> THEN [kills |-> << >>, raised |-> FALSE]
            ELSE IF ~IsDigits(pid_s) THEN [kills |-> << >>, raised |-> FALSE]
            ELSE [kills |-> << ParseInt(pid_s, 0) >>, raised |-> FALSE]

\* One call of _notify_blocker_refresh() by a request handler.
NotifyBlockerRefresh ==
    /\ \E pid_file \in PidFiles, kill \in KillOutcomes :
         LET r == notify_call(pid_file, kill)
         IN api' = [api EXCEPT !.notify = [done |-> TRUE, pid_file |-> pid_file,
                                           kill |-> kill, kills |-> r.kills,
                                           raised |-> r.raised]]
    /\ api'.notify # api.notify
    /\ UNCHANGED << impl, signals, postconf, probe_vars, warn_vars, fs_vars, ctl, ipc, env_vars,
                    files, pc, engine, last_marker, last_hash, local_vars, refresh_event,
                    it, hist_vars >>

\* ensure_db_ready that forgets its engine when init_db fails.
ensure_db_ready_DropsEngine(st, get_engine_ok, init_db_ok) ==
    LET called == [st EXCEPT !.calls = @ + 1, !.was_engine = st.engine,
                             !.was_ready = st.ready,
                             !.ran_get_engine = FALSE, !.ran_init_db = FALSE]
    IN IF st.ready THEN [called EXCEPT !.ret = "True"]
       ELSE IF ~st.engine /\ ~get_engine_ok
       THEN [called EXCEPT !.get_engine_calls = @ + 1, !.ran_get_engine = TRUE,
                           !.ret = "False"]
       ELSE LET made == [called EXCEPT !.engine = TRUE,
                                       !.get_engine_calls =
                                           IF st.engine THEN @ ELSE @ + 1,
                                       !.ran_get_engine = ~st.engine,
                                       !.init_db_calls = @ + 1,
                                       !.ran_init_db = TRUE]
            IN IF init_db_ok
               THEN [made EXCEPT !.ready = TRUE, !.ret = "True"]
               ELSE [made EXCEPT !.engine = FALSE, !.ret = "False"]

\* ensure_db_ready() (app_factory.py 82-99, api.py 154-176): return True when ready;
\* else create the engine if there is none, run init_db, mark ready; any exception
\* gives False. st is the app's state, the two flags say whether get_engine and
\* init_db would succeed now.
ensure_db_ready(st, get_engine_ok, init_db_ok) ==
    LET called == [st EXCEPT !.calls = @ + 1, !.was_engine = st.engine,
                             !.was_ready = st.ready,
                             !.ran_get_engine = FALSE, !.ran_init_db = FALSE]
    IN IF st.ready THEN [called EXCEPT !.ret = "True"]
       ELSE IF ~st.engine /\ ~get_engine_ok
       THEN [called EXCEPT !.get_engine_calls = @ + 1, !.ran_get_engine = TRUE,
                           !.ret = "False"]
       ELSE LET made == [called EXCEPT !.engine = TRUE,
                                       !.get_engine_calls =
                                           IF st.engine THEN @ ELSE @ + 1,
                                       !.ran_get_engine = ~st.engine,
                                       !.init_db_calls = @ + 1,
                                       !.ran_init_db = TRUE]
            IN IF init_db_ok
               THEN [made EXCEPT !.ready = TRUE, !.ret = "True"]
               ELSE [made EXCEPT !.ret = "False"]

\* One request that calls ensure_db_ready(), one call after another.
EnsureDbReady ==
    /\ api.calls < MaxApiCalls
    /\ \E get_engine_ok, init_db_ok \in BOOLEAN :
         api' = ensure_db_ready(api, get_engine_ok, init_db_ok)
    /\ UNCHANGED << impl, signals, postconf, probe_vars, warn_vars, fs_vars, ctl, ipc, env_vars,
                    files, pc, engine, last_marker, last_hash, local_vars, refresh_event,
                    it, hist_vars >>

ApiNext == EnsureDbReady \/ NotifyBlockerRefresh

ApiSpec == Init /\ [][ApiNext]_vars

\* ------------------------------------------- a mutating request, step by step
\* Rows another worker's open transaction has written and so holds locked.
LockedBy(w) == UNION { api.req[v].del : v \in Workers \ { w } }

\* What the steps of a request leave alone.
req_frame == << impl, postconf, probe_vars, warn_vars, fs_vars, ctl, ipc, has_test_mode, db_up,
               dir_ok, files, pc, engine, last_marker, last_hash, local_vars, it,
               hist_vars >>

\* conn.execute(bt.insert() / bt.update() / bt.delete()) inside `with eng.connect()`:
\* the statement runs in the connection's transaction, unseen by other connections;
\* an UPDATE that matches no row aborts with 404 and is no mutation.
ReqExecute(w) ==
    /\ api.req[w].phase = "idle"
    /\ db_up
    /\ has_test_mode
    /\ muts < MaxMut
    /\ muts' = muts + 1
    /\ clock' = clock + 1
    /\ \/ \E e \in Rules :
            api' = [api EXCEPT !.req[w] =
                       [NoRequest EXCEPT !.phase = "executed", !.op = "add",
                                         !.put = { Row(clock + 1, e, clock + 1) }]]
       \/ \E row \in table \ LockedBy(w), e \in Rules :
            api' = [api EXCEPT !.req[w] =
                       [NoRequest EXCEPT !.phase = "executed", !.op = "update",
                                         !.del = { row },
                                         !.put = { Row(row.id, e, clock + 1) }]]
       \/ \E row \in table \ LockedBy(w) :
            api' = [api EXCEPT !.req[w] =
                       [NoRequest EXCEPT !.phase = "executed", !.op = "delete",
                                         !.del = { row }]]
    /\ UNCHANGED << req_frame, table, signals, refresh_event >>

\* conn.commit(): the transaction's rows become the table's; a commit that raises
\* leaves the table as it was and the handler through the exception, before the
\* notification.
ReqCommit(w) ==
    /\ api.req[w].phase = "executed"
    /\ \E ok \in BOOLEAN :
         IF db_up /\ ok
         THEN /\ table' = (table \ api.req[w].del) \cup api.req[w].put
              /\ api' = [api EXCEPT !.req =
                            [v \in Workers |->
                               IF v = w
                               THEN [api.req[w] EXCEPT !.phase = "committed",
                                                       !.intact = TRUE]
                               ELSE [api.req[v] EXCEPT !.intact = FALSE,
                                                       !.fresh = FALSE]]]
         ELSE /\ api' = [api EXCEPT !.req[w] = NoRequest]
              /\ UNCHANGED table
    /\ UNCHANGED << req_frame, clock, muts, signals, refresh_event >>

\* A handler that notifies inside its `with` block, before conn.commit().
ReqNotify_BeforeCommit(w) ==
    /\ api.req[w].phase = "executed"
    /\ ~api.req[w].fresh
    /\ notify_blocker_refresh
    /\ api' = [api EXCEPT !.req[w].fresh = TRUE]
    /\ UNCHANGED << req_frame, table, clock, muts >>

\* _notify_blocker_refresh() after the `with` block, then the response.
ReqNotify(w) ==
    /\ api.req[w].phase = "committed"
    /\ notify_blocker_refresh
    /\ api' = [api EXCEPT !.req[w].phase = "idle",
                          !.req[w].fresh = (api.req[w].intact /\ signals' > signals)]
    /\ UNCHANGED << req_frame, table, clock, muts >>

CommitNext ==
    \/ LoopStep
    \/ \E w \in Workers : ReqExecute(w)
    \/ \E w \in Workers : ReqCommit(w)
    \/ \E w \in Workers : ReqNotify(w)

CommitSpec == Init /\ [][CommitNext]_vars

\* ------------------------------------------- a database of the old schema
\* A placeholder for "no row with this id": the API refuses an empty pattern.
NoEntry == BlockEntry(<< >>, FALSE, FALSE)

\* Tables created before the test_mode column existed, of at most MaxLen rows
\* (ids below 1: rows inserted before the loop's process started).
LegacyTables ==
    { { LegacyRow(1 - i, f[i].pattern, f[i].is_regex, 0) :
            i \in { j \in 1..MaxLen : f[j] # NoEntry } } :
        f \in [1..MaxLen -> { e \in Entries : e.test_mode } \cup { NoEntry }] }

SchemaInit ==
    /\ BootState
    /\ ipc = IpcReady
    /\ table \in LegacyTables
    /\ has_test_mode = FALSE
    /\ postconf = "pcre"

\* The loop over a database that starts in the old schema, with restarts and
\* outages of the database; no administrator edits the table.
SchemaNext ==
    \/ LoopStep
    \/ Signal
    \/ Restart
    \/ DbToggle

SchemaSpec == SchemaInit /\ [][SchemaNext]_vars

\* ------------------------------------------------ the content hash on its own
\* Tables of at most MaxLen rows, equal rows under different ids included.
Tables ==
    { { Row(i, f[i], 0) : i \in { j \in 1..MaxLen : f[j] # NoEntry } } :
        f \in [1..MaxLen -> Entries \cup { NoEntry }] }

HashMutations == { "add", "remove", "edit" }

\* The loop has hashed the table as it is now.
HashCurrent == current_hash # None /\ ~(ctl.fn \in HashMutations /\ ~ctl.done)

\* A loop in Steady over any bounded table, nothing fetched yet.
HashInit ==
    /\ impl \in HashLoops
    /\ table \in Tables
    /\ has_test_mode = TRUE
    /\ clock = 0
    /\ muts = 0
    /\ db_up = TRUE
    /\ dir_ok = TRUE
    /\ files = [f \in FileNames |-> Absent]
    /\ pc = "fetch"
    /\ engine = TRUE
    /\ last_marker = None
    /\ last_hash = None
    /\ marker = None
    /\ entries = << >>
    /\ current_hash = None
    /\ refresh_event = FALSE
    /\ it = [NoIteration EXCEPT !.started = TRUE]
    /\ clean_done = FALSE
    /\ conn_failed = FALSE
    /\ restarted = FALSE
    /\ signals = 0
    /\ postconf = "pcre"
    /\ pcre_probes = 1
    /\ pcre_available = TRUE
    /\ pcre_checked = (impl # "run_forever")
    /\ pcre_errors = 0
    /\ regex_warnings = 0
    /\ regex_warned = FALSE
    /\ main_cf = MainCf
    /\ handle = NoHandle
    /\ overlap = FALSE
    /\ before = files
    /\ ctl = NoCall
    /\ api = ApiBoot
    /\ ipc = IpcReady

\* What the steps of this section leave alone.
hash_frame == << impl, api, ipc, has_test_mode, clock, muts, db_up, dir_ok, files, pc, engine, last_marker,
                refresh_event, it, hist_vars, signals, postconf, probe_vars, warn_vars,
                fs_vars >>

\* One fetch and hash: the rows in any order; last_hash keeps the hash before it.
HashFetch ==
    /\ \E order \in Orderings(table) :
         LET es == [i \in 1..Cardinality(table) |-> EntryOf(order[i])]
         IN /\ entries' = es
            /\ current_hash' = HashOf(impl, es)
    /\ last_hash' = current_hash
    /\ ctl' = IF ctl.fn \in HashMutations /\ ~ctl.done
              THEN [ctl EXCEPT !.done = TRUE]
              ELSE [NoCall EXCEPT !.fn = "refetch", !.done = (current_hash # None)]
    /\ UNCHANGED << hash_frame, table, marker >>

\* One committed INSERT since the last fetch.
HashAdd ==
    /\ HashCurrent
    /\ \E i \in 1..MaxLen, e \in Entries :
         /\ \A row \in table : row.id # i
         /\ table' = table \cup { Row(i, e, 0) }
    /\ ctl' = [NoCall EXCEPT !.fn = "add"]
    /\ UNCHANGED << hash_frame, entries, current_hash, last_hash, marker >>

\* One committed DELETE since the last fetch.
HashRemove ==
    /\ HashCurrent
    /\ \E row \in table : table' = table \ { row }
    /\ ctl' = [NoCall EXCEPT !.fn = "remove"]
    /\ UNCHANGED << hash_frame, entries, current_hash, last_hash, marker >>

\* One committed UPDATE of one field of one row to another value.
HashEdit ==
    /\ HashCurrent
    /\ \E row \in table :
         \E new \in { [row EXCEPT !.pattern = p] : p \in Patterns \ { row.pattern } }
                  \cup { [row EXCEPT !.is_regex = ~row.is_regex],
                         [row EXCEPT !.test_mode = ~row.test_mode] } :
            table' = (table \ { row }) \cup { new }
    /\ ctl' = [NoCall EXCEPT !.fn = "edit"]
    /\ UNCHANGED << hash_frame, entries, current_hash, last_hash, marker >>

\* An unrelated read between two fetches: the marker query.
HashOtherRead ==
    /\ \E query_ok \in BOOLEAN : marker' = get_change_marker(query_ok)
    /\ marker' # marker
    /\ UNCHANGED << hash_frame, table, entries, current_hash, last_hash, ctl, api, ipc >>

HashNext == HashFetch \/ HashAdd \/ HashRemove \/ HashEdit \/ HashOtherRead

HashSpec == HashInit /\ [][HashNext]_vars

\* ------------------------------------------------ the Map Writer on its own
\* Entry lists of at most MaxLen entries, duplicates included.
EntryLists == UNION { [1..n -> Entries] : n \in 0..MaxLen }

\* The loop is about to call write_map_files(entries) with any bounded entry list,
\* the files holding nothing yet or what an earlier call left.
MapInit ==
    /\ impl = "run_forever"
    /\ table = {}
    /\ has_test_mode = TRUE
    /\ clock = 0
    /\ muts = 0
    /\ db_up = TRUE
    /\ dir_ok = TRUE
    /\ \E prior \in 0..1 :
         files = IF prior = 0
                 THEN [f \in FileNames |-> Absent]
                 ELSE RenderMaps(<< BlockEntry(<<97>>, FALSE, FALSE),
                                    BlockEntry(<<97>>, TRUE, FALSE),
                                    BlockEntry(<<97>>, FALSE, TRUE),
                                    BlockEntry(<<97>>, TRUE, TRUE) >>)
    /\ pc = "write"
    /\ engine = TRUE
    /\ last_marker = None
    /\ last_hash = None
    /\ marker = None
    /\ entries \in EntryLists
    /\ current_hash = ContentHash(entries)
    /\ refresh_event = FALSE
    /\ it = [NoIteration EXCEPT !.started = TRUE, !.fetched = TRUE]
    /\ clean_done = FALSE
    /\ conn_failed = FALSE
    /\ restarted = FALSE
    /\ signals = 0
    /\ postconf = "pcre"
    /\ pcre_probes = 1
    /\ pcre_available = TRUE
    /\ pcre_checked = (impl = "monitor_loop")
    /\ pcre_errors = 0
    /\ regex_warnings = 0
    /\ regex_warned = FALSE
    /\ main_cf \in { Absent, MainCf }
    /\ handle = NoHandle
    /\ overlap = FALSE
    /\ before = files
    /\ ctl = NoCall
    /\ api = ApiBoot
    /\ ipc = IpcReady

\* The caller calls write_map_files again with the same entry list.
MapCallAgain ==
    /\ pc = "reload"
    /\ Len(it.calls) < MaxCalls
    /\ pc' = "write"
    /\ before' = files
    /\ UNCHANGED << impl, signals, postconf, probe_vars, warn_vars, main_cf, handle, overlap, ctl, api, ipc,
                    env_vars, files, engine, last_marker, last_hash,
                    local_vars, refresh_event, it, hist_vars >>

MapNext == WriteMaps \/ MapCallAgain

MapSpec == MapInit /\ [][MapNext]_vars

\* ------------------------------------------ the MTA Controller on its own
\* A caller is about to call reload_postfix() or has_postfix_pcre(), the external
\* commands behaving in any of the ways they can.
ControlInit ==
    /\ Init
    /\ impl = "run_forever"
    /\ db_up

ControlCalls ==
    { [fn |-> "reload_postfix", args |-> << rc1, rc1b, st, rc2 >>,
       done |-> FALSE, result |-> << >>] : rc1, rc1b, st, rc2 \in ExitCodes }
    \cup
    { [fn |-> "has_postfix_pcre", args |-> << out >>,
       done |-> FALSE, result |-> << >>] : out \in PostconfOutcomes }

\* The caller picks the call and the behaviour of the commands.
ControlSetUp ==
    /\ ctl = NoCall
    /\ api = ApiBoot
    /\ ctl' \in ControlCalls
    /\ UNCHANGED << impl, signals, postconf, probe_vars, warn_vars, fs_vars, api, ipc, env_vars,
                    files, pc,
                    engine, last_marker, last_hash, local_vars, refresh_event, it,
                    hist_vars >>

CallReloadPostfix ==
    /\ ctl.fn = "reload_postfix"
    /\ ~ctl.done
    /\ ctl' = [ctl EXCEPT !.done = TRUE,
                          !.result = reload_postfix(ctl.args[1], ctl.args[2],
                                                    ctl.args[3], ctl.args[4])]
    /\ UNCHANGED << impl, signals, postconf, probe_vars, warn_vars, fs_vars, api, ipc, env_vars,
                    files, pc,
                    engine, last_marker, last_hash, local_vars, refresh_event, it,
                    hist_vars >>

CallHasPostfixPcre ==
    /\ ctl.fn = "has_postfix_pcre"
    /\ ~ctl.done
    /\ ctl' = [ctl EXCEPT !.done = TRUE, !.result = has_postfix_pcre(ctl.args[1])]
    /\ UNCHANGED << impl, signals, postconf, probe_vars, warn_vars, fs_vars, api, ipc, env_vars,
                    files, pc,
                    engine, last_marker, last_hash, local_vars, refresh_event, it,
                    hist_vars >>

ControlNext == ControlSetUp \/ CallReloadPostfix \/ CallHasPostfixPcre

ControlSpec == ControlInit /\ [][ControlNext]_vars

\* ------------------------------------- the Map Writer, one file at a time
\* `with path.open('w') as f:` entered for the next file of WriteOrder: the file is
\* created or truncated.  An OSError is raised to the loop, which catches it.
OpenMapFile ==
    /\ pc = "write"
    /\ ~handle.open
    /\ handle.done < 4
    /\ IF dir_ok
       THEN /\ files' = [files EXCEPT ![WriteOrder[handle.done + 1]] = Written(<< >>)]
            /\ handle' = [handle EXCEPT !.open = TRUE]
            /\ UNCHANGED << pc, it, last_marker, last_hash, clean_done >>
       ELSE /\ handle' = NoHandle
            /\ Caught
            /\ EndIteration([it EXCEPT !.calls = Append(@, "write_map_files"),
                                       !.raised = TRUE])
            /\ UNCHANGED files
    /\ UNCHANGED << impl, signals, postconf, probe_vars, warn_vars, main_cf, overlap, before, ctl, api, ipc,
                    env_vars, engine, local_vars, refresh_event, conn_failed, restarted >>

\* CloseMapFile that returns to the loop with the last file still open and unflushed.
CloseMapFile_LastLeftOpen ==
    /\ pc = "write"
    /\ handle.open
    /\ IF handle.done + 1 = 4
       THEN /\ pc' = "reload"
            /\ it' = [it EXCEPT !.calls = Append(@, "write_map_files")]
            /\ UNCHANGED << files, handle >>
       ELSE /\ files' = [files EXCEPT ![WriteOrder[handle.done + 1]] =
                            Written(FileText(LinesFor(entries, WriteOrder[handle.done + 1])))]
            /\ handle' = [done |-> handle.done + 1, open |-> FALSE]
            /\ UNCHANGED << pc, it >>
    /\ UNCHANGED << impl, signals, postconf, probe_vars, warn_vars, main_cf, overlap, before, ctl, api, ipc,
                    env_vars, engine, last_marker, last_hash, local_vars, refresh_event,
                    hist_vars >>

\* f.write('\n'.join(lines) + ...) and the end of the with block: the text reaches the
\* file and the handle is closed; after the fourth file write_map_files returns.
CloseMapFile ==
    /\ pc = "write"
    /\ handle.open
    /\ files' = [files EXCEPT ![WriteOrder[handle.done + 1]] =
                    Written(FileText(LinesFor(entries, WriteOrder[handle.done + 1])))]
    /\ IF handle.done + 1 = 4
       THEN /\ handle' = NoHandle
            /\ pc' = "reload"
            /\ it' = [it EXCEPT !.calls = Append(@, "write_map_files")]
       ELSE /\ handle' = [done |-> handle.done + 1, open |-> FALSE]
            /\ UNCHANGED << pc, it >>
    /\ UNCHANGED << impl, signals, postconf, probe_vars, warn_vars, main_cf, overlap, before, ctl, api, ipc,
                    env_vars, engine, last_marker, last_hash, local_vars, refresh_event,
                    hist_vars >>

\* The API process changes the Postfix log level: apply_postfix_log_level rewrites
\* main.cf and calls reload_postfix(), which runs the map compiler on the literal
\* files, whatever the loop is doing at that moment.
ApiLogLevel ==
    /\ main_cf' = MainCf
    /\ overlap' = (overlap \/ handle.open)
    /\ UNCHANGED << impl, signals, postconf, probe_vars, warn_vars, handle, before, ctl, api, ipc,
                    env_vars, files, pc, engine, last_marker, last_hash, local_vars,
                    refresh_event, it, hist_vars >>

WriterNext ==
    \/ OpenMapFile
    \/ CloseMapFile
    \/ ReloadPostfix
    \/ ApiLogLevel
    \/ DirToggle

WriterSpec == MapInit /\ [][WriterNext]_vars

\* The file the interface table assigns to an (is_regex, test_mode) pair.
SpecFile(is_regex, test_mode) ==
    CASE ~is_regex /\ ~test_mode -> "blocked_recipients"
      [] is_regex /\ ~test_mode -> "blocked_recipients.pcre"
      [] ~is_regex /\ test_mode -> "blocked_recipients_test"
      [] is_regex /\ test_mode -> "blocked_recipients_test.pcre"

\* The line the interface table prescribes for an entry.
SpecLine(e) ==
    IF e.is_regex
    THEN <<SLASH>> \o e.pattern \o <<SLASH, SPACE>> \o REJECT
    ELSE e.pattern \o <<TAB>> \o REJECT

Count(x, seq) == Cardinality({ j \in DOMAIN seq : seq[j] = x })

\* The lines a reader finds in file f are, as a bag, the lines of the entries of es
\* that the interface table routes to f.
HoldsExactly(f, es) ==
    LET idx == { i \in DOMAIN es : SpecFile(es[i].is_regex, es[i].test_mode) = f }
        lines == FileLines(files[f])
    IN /\ Len(lines) = Cardinality(idx)
       /\ \A i \in idx :
            Count(SpecLine(es[i]), lines) = Cardinality({ j \in idx : es[j] = es[i] })

\* C2: after write_map_files(entries) the four files together hold exactly one line
\* per entry, each entry's line in the one file its (is_regex, test_mode) selects:
\* no entry dropped, duplicated or routed to a second file.
C2_PartitionCompleteness ==
    (pc = "reload") => \A f \in FileNames : HoldsExactly(f, entries)

\* The same, for the entry lists none of whose patterns holds a line feed.
NoLineFeed(es) == \A i \in DOMAIN es : \A k \in DOMAIN es[i].pattern : es[i].pattern[k] # LF

C2_PartitionWithoutLineFeed ==
    (pc = "reload" /\ NoLineFeed(entries)) => \A f \in FileNames : HoldsExactly(f, entries)

\* ------------------------------------------------------- the loop's claims
\* A Steady iteration has run to the wait step.
IterDone == pc = "wait" /\ it.started

\* The calls of a reconciliation pass.
Pass == << "write_map_files", "reload_postfix" >>

\* The files are a rendering of the table as it is now (in some row order).
FilesMatchTable ==
    \E order \in Orderings(table) :
        files = RenderMaps([i \in 1..Cardinality(table) |-> EntryOf(order[i])])

\* C1: if the table stops changing and the database and the output directory stay
\* usable, the loop eventually performs a pass after which the map files are the
\* rendering of the final table contents, refresh signal or not.
C1_EventuallyReconciled == ([]db_up) => <>[]FilesMatchTable

\* The fingerprint test of the specification: the marker is available and differs from
\* the last-seen marker, or it is unavailable and the content hash differs.
FingerprintChanged ==
    \/ (marker # None /\ marker # it.start_marker)
    \/ (marker = None /\ current_hash # it.start_hash)

\* C3 as stated: in an iteration whose queries succeed and whose fingerprint test
\* fires, the Map Writer is called, then the MTA Controller, and the current marker
\* and hash are then recorded as last-seen.
C3_ChangedFingerprintApplies ==
    (IterDone /\ it.fetched /\ FingerprintChanged)
        => (it.calls = Pass /\ last_marker = marker /\ last_hash = current_hash)

\* C3 as amended: ... the Map Writer is called; unless it raises, the MTA Controller
\* is called next and the current marker and hash are recorded after it (if it raises,
\* nothing further is called and nothing is recorded).
C3_ChangedFingerprintAppliesUnlessWriterRaises ==
    /\ (IterDone /\ it.fetched /\ FingerprintChanged)
          => IF it.raised
             THEN /\ it.calls = << "write_map_files" >>
                  /\ last_marker = it.start_marker
                  /\ last_hash = it.start_hash
             ELSE /\ it.calls = Pass
                  /\ last_marker = marker
                  /\ last_hash = current_hash
    /\ (pc = "write") => it.calls = << >>
    /\ (pc = "reload")
          => /\ it.calls = << "write_map_files" >>
             /\ last_marker = it.start_marker
             /\ last_hash = it.start_hash

C3_Witness ==
    /\ IterDone
    /\ it.fetched
    /\ marker = None
    /\ it.start_hash # None
    /\ current_hash # it.start_hash
    /\ it.calls = Pass
    /\ last_hash = current_hash

C5_ConnectingRetriesUntilSuccess ==
    /\ []( pc # "crashed" )
    /\ [][ (pc' \in SteadyPcs /\ pc \notin SteadyPcs) => (pc = "connect" /\ db_up /\ engine') ]_vars
    /\ [][ (pc = "connect" /\ ~db_up /\ pc' # pc) => pc' = "retry" ]_vars
    /\ [][ (pc = "retry" /\ pc' # pc) => pc' = "connect" ]_vars
    /\ ( (<>[]db_up) => <>(pc \in SteadyPcs) )

C5_Witness == pc = "steady" /\ conn_failed /\ ~it.started

\* C6: an exception raised in a Steady iteration is caught: the loop goes to its wait,
\* and only after the wait does another iteration start; the process is never ended
\* by it.
C6_IterationExceptionsCaught ==
    /\ []( pc # "crashed" )
    /\ [][ (~it.raised /\ it'.raised) => pc' = "wait" ]_vars
    /\ [][ (pc = "wait" /\ pc' # pc) => pc' \in { "clear", "boot" } ]_vars
    /\ [][ (pc = "clear" /\ pc' # pc) => pc' \in { "steady", "boot" } ]_vars
    /\ [][ (pc' = "steady" /\ pc # "steady") => pc \in { "clear", "connect" } ]_vars

C6_Witness == pc = "clear" /\ it.raised /\ it.fetched

\* C7: an iteration that raises leaves last_marker and last_hash as they were when it
\* started (as does an iteration still under way), so the next iteration compares
\* against the fingerprint of before the failure.
C7_FingerprintKeptOnRaise ==
    (it.started /\ (it.raised \/ pc \in { "fetch", "write", "reload" }))
        => (last_marker = it.start_marker /\ last_hash = it.start_hash)

C7_Witness ==
    /\ pc = "wait"
    /\ it.raised
    /\ it.calls = << "write_map_files" >>
    /\ it.start_hash # None
    /\ current_hash # it.start_hash
    /\ last_hash = it.start_hash

\* C8: after a pass in which a compiler or reload run failed, the next iteration
\* (completing without an exception) invokes the MTA Controller again, the table
\* changed or not.
C8_ControllerRetriedNextIteration ==
    (IterDone /\ it.retry_due /\ ~it.raised)
        => \E i \in DOMAIN it.calls : it.calls[i] = "reload_postfix"

\* C9: the first Steady iteration of a process that completes without an exception
\* calls the Map Writer and the MTA Controller, whatever the table holds.
C9_FirstCleanIterationApplies ==
    (pc = "wait" /\ it.first_clean) => it.calls = Pass

C9_Witness ==
    /\ pc = "wait"
    /\ it.first_clean
    /\ restarted
    /\ entries = << >>
    /\ it.calls = Pass

\* C10: an iteration started by the refresh signal runs the fingerprint test like any
\* other: with the marker and the content hash unchanged it calls neither the Map
\* Writer nor the MTA Controller.
C10_SignalDoesNotBypassFingerprint ==
    (/\ IterDone
     /\ it.woke = "signal"
     /\ ~it.raised
     /\ marker = it.start_marker
     /\ (it.skipped \/ current_hash = it.start_hash))
        => it.calls = << >>

C10_Witness ==
    /\ IterDone
    /\ it.woke = "signal"
    /\ it.fetched
    /\ marker # None
    /\ marker = it.start_marker
    /\ current_hash = it.start_hash
    /\ it.calls = << >>

\* C11: any number of refresh signals delivered before the loop wakes make one early
\* wake-up: the flag is set exactly while signals are unconsumed, a wait ends early
\* only on an unconsumed signal, and the clearing that follows the wake-up consumes
\* them all, so the next wait is cut short only by a signal delivered after it.
C11_SignalsCollapseIntoOneWake ==
    /\ []( refresh_event <=> signals > 0 )
    /\ [][ (pc = "wait" /\ pc' = "clear") => (it'.woke = "signal" <=> signals > 0) ]_vars
    /\ [][ (pc = "clear" /\ pc' = "steady") => (~refresh_event' /\ signals' = 0) ]_vars

C11_Witness ==
    /\ pc = "clear"
    /\ it.started
    /\ it.woke = "signal"
    /\ signals = MaxSig
    /\ refresh_event

\* ------------------------------------------------- the Map Writer's claims
\* The content the interface prescribes for file f: the lines of the entries routed
\* to f, in the order of the list, each followed by one LF.
RECURSIVE ExpectedText(_, _)
ExpectedText(es, f) ==
    IF es = <<>> THEN <<>>
    ELSE (IF SpecFile(Head(es).is_regex, Head(es).test_mode) = f
          THEN SpecLine(Head(es)) \o <<LF>>
          ELSE <<>>) \o ExpectedText(Tail(es), f)

\* C12: after write_map_files(entries) each file holds exactly the lines of the entries
\* routed to it, in the order of the entry list, a literal as pattern TAB REJECT and
\* a regex as /pattern/ REJECT, each line ended by one LF (no entry: an empty file).
C12_FileContentInListOrder ==
    (pc = "reload")
        => \A f \in FileNames : files[f] = Written(ExpectedText(entries, f))

C12_Witness ==
    /\ pc = "reload"
    /\ Len(entries) = 2
    /\ entries[1] # entries[2]
    /\ \E f, g \in FileNames :
          /\ files[f].text = SpecLine(entries[1]) \o <<LF>> \o SpecLine(entries[2]) \o <<LF>>
          /\ files[g] = Written(<<>>)

\* C13: a second call of the Map Writer with the same entry list leaves the four files
\* byte-identical to what the first call left.
C13_SecondCallChangesNothing ==
    [][ (pc = "write" /\ it.calls # << >> /\ pc' = "reload") => files' = files ]_vars

C13_Witness ==
    /\ pc = "reload"
    /\ Len(it.calls) = 2
    /\ \E f \in FileNames : files[f].text # << >>

\* C14: a call rewrites all four files in full: what they hold afterwards is what the
\* same call leaves when no file existed before, so it depends on the entry list
\* alone, and after a call with the empty list all four files exist with zero bytes.
C14_RewrittenInFull ==
    (pc = "reload")
        => /\ files = WriteFirst([f \in FileNames |-> Absent], entries, 4)
           /\ (entries = << >>) => \A f \in FileNames : files[f] = Written(<< >>)

C14_Witness ==
    /\ pc = "reload"
    /\ entries = << >>
    /\ \A f \in FileNames : before[f].text # << >>
    /\ \A f \in FileNames : files[f] = Written(<< >>)

\* C15: a call creates or overwrites the four map files and leaves every other file of
\* the output directory (main.cf) as it was.
C15_OnlyTheFourFilesTouched ==
    [][ (pc = "write" /\ pc' = "reload")
           => /\ main_cf' = main_cf
              /\ DOMAIN files' = FileNames
              /\ \A f \in FileNames : files'[f].exists ]_vars

C15_Witness ==
    /\ pc = "reload"
    /\ main_cf = MainCf
    /\ \A f \in FileNames : before[f] = Absent /\ files[f].exists
    /\ \E f \in FileNames : files[f].text # << >>

\* C16: in a pass the loop invokes the map compiler only when all four files are
\* written in full and no handle is open.
C16_FilesClosedBeforeCompiler ==
    (pc = "reload")
        => /\ ~handle.open
           /\ handle.done = 0
           /\ files = RenderMaps(entries)

C16_Witness ==
    /\ pc = "wait"
    /\ it.calls = Pass
    /\ ~it.raised
    /\ ~overlap
    /\ entries # << >>
    /\ files = RenderMaps(entries)

\* C17: no run of the map compiler, whichever process starts it, overlaps the interval
\* in which the loop has a map file open for rewrite.
C17_NoCompilerRunDuringRewrite == ~overlap

\* ---------------------------------------------------------------- C18
InCmds(c, r) == \E i \in 1..Len(r.cmds) : r.cmds[i] = c

ReloadCallDone == ctl.fn = "reload_postfix" /\ ctl.done

\* C18 as stated: the MTA Controller runs the map compiler on the enforce and the test
\* literal files first, then queries the status, and issues the reload if and only
\* if the status command reports the master as running (exit code 0); a status
\* command that cannot be launched counts as not running.
C18_CompileStatusThenReloadIffRunning ==
    ReloadCallDone =>
        /\ Len(ctl.result.cmds) >= 3
        /\ SubSeq(ctl.result.cmds, 1, 3) = << "postmap", "postmap_test", "status" >>
        /\ (InCmds("reload", ctl.result) <=> ctl.args[3] = 0)

\* C18, amended: the commands run are an initial part of compiler on the enforce
\* file, compiler on the test file, status, reload. When both compiler runs could
\* be launched the status is queried and the reload is issued if and only if the
\* status command exits 0 (a status command that cannot be launched counts as not
\* running); when a compiler run cannot be launched the controller stops there,
\* with no status query and no reload, whatever the master's state.
C18_CompileStatusThenReloadIffLaunched ==
    ReloadCallDone =>
        LET r == ctl.result
            all == << "postmap", "postmap_test", "status", "reload" >>
        IN /\ Len(r.cmds) \in 1..4
           /\ r.cmds = SubSeq(all, 1, Len(r.cmds))
           /\ (ctl.args[1] # -1 /\ ctl.args[2] # -1)
                 => /\ InCmds("status", r)
                    /\ (InCmds("reload", r) <=> ctl.args[3] = 0)
           /\ ctl.args[1] = -1 => r.cmds = << "postmap" >>
           /\ (ctl.args[1] # -1 /\ ctl.args[2] = -1)
                 => r.cmds = << "postmap", "postmap_test" >>

C18_Witness ==
    /\ ReloadCallDone
    /\ ctl.args[1] # -1
    /\ ctl.args[2] # -1
    /\ ctl.args[3] = 0
    /\ ctl.result.cmds = << "postmap", "postmap_test", "status", "reload" >>

\* ---------------------------------------------------------------- C19
\* C19: for every outcome of the external commands (launch failure, non-zero exit
\* code, missing binary) reload_postfix returns normally without raising, and
\* has_postfix_pcre returns False without raising; neither hands an exception to
\* its caller.
C19_ControllerNeverRaises ==
    /\ ReloadCallDone => ~ctl.result.raised
    /\ (ctl.fn = "has_postfix_pcre" /\ ctl.done)
          => /\ ~ctl.result.raised
             /\ ctl.args[1] \in { "nonzero", "missing" } => ~ctl.result.value

C19_Witness ==
    /\ ReloadCallDone
    /\ ctl.args[1] = -1
    /\ ~ctl.result.raised

\* ---------------------------------------------------------------- C20
\* C20: the regex-capability probe command is executed exactly once per process
\* lifetime, however many connection retries and Steady iterations occur, and the
\* flag it produced never changes afterwards: a process never has more than one
\* run of the probe behind it, a process in Steady (and a run_forever process from
\* its first connection attempt on) has exactly one, and while the process lives
\* on the flag keeps the value that run gave it, whatever the host does since.
C20_ProbedOncePerProcess ==
    /\ [](pcre_probes <= 1)
    /\ [](pc \in SteadyPcs => pcre_probes = 1)
    /\ []((impl = "run_forever" /\ pc \in { "connect", "retry" }) => pcre_probes = 1)
    /\ [][ (pcre_probes = 1 /\ pcre_probes' = 1)
              => pcre_available' = pcre_available ]_vars

\* A run_forever process that enters Steady after a failed connection attempt, on a
\* host whose answer is no longer the one the probe got.
C20_Witness ==
    /\ impl = "run_forever"
    /\ pc = "steady"
    /\ conn_failed
    /\ pcre_probes = 1
    /\ pcre_available # has_postfix_pcre(postconf).value

\* ---------------------------------------------------------------- C21
\* The message by which a process reports unenforced regex rules: monitor_loop's
\* warning after a fetch (blocker.py 555-563), run_forever's message after its
\* probe (blocker_service.py 84-87), the only one it has.
Unenforced == IF impl = "monitor_loop" THEN regex_warnings ELSE pcre_errors

SawRegexWithoutPcre == RegexCount(entries) > 0 /\ ~pcre_available

C22_HashChangesOnEveryMutation ==
    (ctl.fn \in HashMutations /\ ctl.done) => current_hash # last_hash

\* ---------------------------------------------------------------- C23
\* C23: within one process the content hash of run_forever and monitor_loop depends
\* only on the multiset of (pattern, is_regex, test_mode) tuples: re-fetching an
\* unmutated table yields the same hash whatever order the rows are returned in
\* and whatever unrelated reads ran in between.
C23_HashOfUnmutatedTableStable ==
    (impl \in { "run_forever", "monitor_loop" } /\ ctl.fn = "refetch" /\ ctl.done)
        => current_hash = last_hash

\* A re-fetch of two different rows, after the marker was read, that returned the
\* rows in an order that is not the sorted one.
C23_Witness ==
    /\ impl \in { "run_forever", "monitor_loop" }
    /\ ctl.fn = "refetch"
    /\ ctl.done
    /\ marker # None
    /\ Len(entries) = 2
    /\ entries # Sorted(entries)
    /\ current_hash = last_hash

\* ---------------------------------------------------------------- C24
\* What a row holds besides test_mode.
RowCore(row) ==
    [ id |-> row.id, pattern |-> row.pattern, is_regex |-> row.is_regex,
      updated_at |-> row.updated_at ]

\* A step of the API commits one mutation; the database comes and goes by itself;
\* every other step is a step of the reconciliation process or the start of one.
LoopMoved == muts' = muts /\ db_up' = db_up

NamedPid(pid_file) ==
    IF pid_file \in { Written(<< 52, 50 >>), Written(<< 52, 50, LF >>) } THEN 42
    ELSE IF pid_file = Written(<< SPACE, 55 >>) THEN 7
    ELSE 0

\* C25: notifying the blocker is advisory: _notify_blocker_refresh never raises
\* (missing or empty PID file, non-numeric PID, process that cannot be signalled),
\* and when the PID file holds a valid PID it sends exactly one SIGUSR1 to that
\* PID.
C25_NotifyNeverRaises ==
    api.notify.done =>
        /\ ~api.notify.raised
        /\ NamedPid(api.notify.pid_file) # 0
              => api.notify.kills = << NamedPid(api.notify.pid_file) >>
        /\ NamedPid(api.notify.pid_file) = 0 => api.notify.kills = << >>

\* The PID file held '42<LF>' and the process could not be signalled.
C25_Witness ==
    /\ api.notify.done
    /\ api.notify.pid_file = Written(<< 52, 50, LF >>)
    /\ api.notify.kill = "no_process"
    /\ api.notify.kills = << 42 >>
    /\ ~api.notify.raised

\* ---------------------------------------------------------------- C26
\* What C26 and its amended form share: the engine is created at most once (a call
\* that finds an engine does not call get_engine), and once a call has returned
\* True every later call returns True without calling get_engine or init_db.
EngineOnceReadyForGood ==
    /\ api.was_engine => (api.engine /\ ~api.ran_get_engine)
    /\ api.was_ready => /\ api.ready
                        /\ api.ret = "True"
                        /\ ~api.ran_get_engine
                        /\ ~api.ran_init_db
    /\ api.ret = "True" => api.ready
    /\ api.ret = "False" => ~api.ready

C27_UnavailableMarkerFallsBackToHash ==
    /\ [][ (pc = "steady" /\ pc' # "steady" /\ marker' = None)
              => (pc' = "fetch" /\ ~it'.raised /\ ~it'.skipped) ]_vars
    /\ []((it.started /\ marker = None)
            => /\ ~it.skipped
               /\ (IterDone /\ ~it.fetched) => (it.raised /\ it.calls = << >>)
               /\ (IterDone /\ it.fetched)
                     => (it.calls # << >> <=> current_hash # it.start_hash))

\* The marker query failed in an iteration that follows another; the entries were
\* fetched, their hash differed from the last-seen one and the pass ran.
C27_Witness ==
    /\ IterDone
    /\ it.prev
    /\ marker = None
    /\ it.fetched
    /\ it.start_hash # None
    /\ current_hash # it.start_hash
    /\ it.calls = Pass

\* ---------------------------------------------------------------- C28
\* C28: a Steady iteration fetches the full entry snapshot only when the marker
\* differs from the last-seen marker or is unavailable; an iteration whose marker
\* is available and unchanged issues no entry-fetch query.
C28_FetchOnlyOnChangedMarker ==
    (it.started /\ marker # None /\ marker = it.start_marker)
        => (pc # "fetch" /\ ~it.fetched)

\* ---------------------------------------------------------------- C29
\* The table holds what the worker's transaction wrote.
Contains(t, r) == r.put \subseteq t /\ r.del \cap t = {}

\* C29: for every successful add, update or delete through the API the refresh
\* signal is sent only after the mutation's transaction has been committed, so an
\* iteration woken by that signal reads a table that already contains the mutation.
C29_SignalOnlyAfterCommit ==
    /\ [][ signals' > signals
             => \E w \in Workers :
                  /\ api.req[w].phase = "committed"
                  /\ api'.req[w].phase = "idle"
                  /\ api.req[w].intact => Contains(table, api.req[w]) ]_vars
    /\ [][ (pc = "fetch" /\ it.woke = "signal" /\ it'.fetched)
             => \A w \in Workers :
                  api.req[w].fresh
                     => /\ Contains(table, api.req[w])
                        /\ \A row \in api.req[w].put :
                             \E i \in 1..Len(entries') : entries'[i] = EntryOf(row) ]_vars

C29_Witness ==
    /\ it.woke = "signal"
    /\ it.fetched
    /\ pc = "write"
    /\ api.req["w1"].fresh
    /\ api.req["w1"].op = "add"
    /\ api.req["w2"].phase = "executed"
    /\ \E row \in api.req["w1"].put :
         \E i \in 1..Len(entries) : entries[i] = EntryOf(row)

\* ---------------------------------------------------------------- C30
\* C30: the MTA regex-capability probe runs only after schema initialization has
\* succeeded for the first time (on entry to SchemaReady); it never runs while the
\* loop is still in Connecting.
C30_ProbeOnlyOnSchemaReady ==
    /\ [][ pcre_probes' > pcre_probes => (pc = "connect" /\ pc' = "steady") ]_vars
    /\ [](pc \in { "boot", "connect", "retry" } => pcre_probes = 0)

\* C30, as the code has it: run_forever probes at process start, before its first
\* connection attempt; monitor_loop probes when schema initialization has just
\* succeeded for the first time; neither probes inside the connection retry loop.
C30_ProbeAtStartOrOnSchemaReady ==
    /\ [][ pcre_probes' > pcre_probes
             => IF impl = "run_forever"
                THEN pc = "boot" /\ pc' = "connect"
                ELSE pc = "connect" /\ pc' = "steady" ]_vars
    /\ [][ (pc \in { "connect", "retry" } /\ pc' \in { "connect", "retry" })
             => pcre_probes' = pcre_probes ]_vars
    /\ []((impl = "monitor_loop" /\ pc \in { "boot", "connect", "retry" })
             => pcre_probes = 0)
    /\ []((impl = "run_forever" /\ pc \in { "connect", "retry" }) => pcre_probes = 1)

\* A monitor_loop process that has just reached Steady after a failed attempt, its
\* probe run.
C30_Witness ==
    /\ impl = "monitor_loop"
    /\ pc = "steady"
    /\ ~it.started
    /\ conn_failed
    /\ pcre_checked
    /\ pcre_probes = 1

\* ---------------------------------------------------------------- C31
\* The Map Writer was called in this iteration.
WriterRan == \E i \in 1..Len(it.calls) : it.calls[i] = "write_map_files"

\* C31: every Steady iteration in which the Map Writer ran emits exactly one
\* pass-summary log line carrying the entry count, marker and hash of that pass, and
\* an iteration without a write emits no such line.
C31_OneSummaryLinePerWrite ==
    IterDone =>
        IF WriterRan
        THEN it.summary = << [total |-> Len(entries), marker |-> marker,
                              hash |-> current_hash] >>
        ELSE it.summary = << >>

\* ---------------------------------------------------------------- C32
\* C32: a refresh signal delivered at any point of Steady (during the wait, during
\* an iteration's work, or between the wait returning and the wake flag being
\* cleared) is always followed by an iteration that starts its marker query after
\* the signal was delivered, with no intervening wait that runs to its timeout: no
\* wait times out over a delivered signal, the step after the flag is cleared is
\* the top of the loop, whose next step is the marker query, and every delivered
\* signal leads there.
C32_SignalFollowedByIteration ==
    /\ [][ (pc = "wait" /\ pc' = "clear" /\ it'.woke = "timeout") => signals = 0 ]_vars
    /\ [][ (pc = "clear" /\ pc' # "clear") => pc' = "steady" ]_vars
    /\ [][ (pc = "steady" /\ pc' # "steady")
             => (it'.started /\ entries' = << >> /\ pc' \in { "fetch", "wait" }) ]_vars
    /\ (pc \in SteadyPcs /\ signals > 0) ~> (pc = "steady" /\ signals = 0)
    /\ (pc = "steady") ~> (pc \in { "fetch", "wait" })

\* An iteration begun on a wake-up by the signal, with another signal delivered
\* while it works.
C32_Witness ==
    /\ pc = "fetch"
    /\ it.prev
    /\ it.woke = "signal"
    /\ signals = 1
    /\ refresh_event

\* ---------------------------------------------------------------- C33
\* The marker of the table as it is now.
TableMarker == << MaxUpdatedAt(table), Cardinality(table) >>

\* The table was mutated after the marker query of the iteration under way, and no
\* mutation follows.
MutatedSinceMarkerRead ==
    /\ it.started
    /\ pc \in { "fetch", "write", "reload" }
    /\ marker # None
    /\ marker # TableMarker
    /\ muts = MaxMut

\* C33: within an iteration the marker is read before the entries are fetched, so
\* under any interleaving with concurrent table mutations the snapshot written is
\* never older than the marker recorded as last-seen: a mutation committed between
\* the two reads is either already in the written snapshot or changes the marker
\* seen by the next iteration, and is never permanently missed (the database being
\* readable from then on, the files end up the rendering of the table).
C33_MutationBetweenReadsNotMissed ==
    /\ [][ (pc = "fetch" /\ it'.fetched)
             => /\ marker' = marker
                /\ \E order \in Orderings(table) :
                     entries' = [i \in 1..Cardinality(table) |-> EntryOf(order[i])] ]_vars
    /\ [][ (pc = "reload" /\ pc' = "wait" /\ ~it'.raised)
             => (last_marker' = marker /\ files = RenderMaps(entries)) ]_vars
    /\ []((MutatedSinceMarkerRead /\ []db_up) => <>[]FilesMatchTable)

C33_Witness ==
    /\ IterDone
    /\ it.calls = Pass
    /\ last_marker # None
    /\ last_marker # TableMarker
    /\ muts = MaxMut
    /\ FilesMatchTable

\* ---------------------------------------------------------------- C34
\* The entry lists a fetch can return.
Snapshots == UNION { [1..n -> Rules] : n \in 0..MaxMut }

\* C34: after any sequence of successful and failed iterations, whenever the loop is
\* in its wait and at least one pass has completed, the four map files equal the
\* rendering of the entry snapshot whose hash is stored as last-seen.
C34_FilesRenderLastSeenSnapshot ==
    (pc = "wait" /\ last_hash # None)
        => \E es \in Snapshots :
             /\ ContentHash(es) = last_hash
             /\ files = RenderMaps(es)

\* ---------------------------------------------------------------- C35
\* C35: the PID file is published only after the refresh-signal handler is
\* installed, so a refresh signal sent to the published PID at any time is handled
\* as a wake-up and never terminates the reconciliation process.
C35_PidPublishedAfterHandler ==
    /\ ipc.pid_file => ipc.handler
    /\ ~ipc.killed
    /\ pc # "crashed"

\* ---------------------------------------------------------------- C36
\* C36: in every pass, the map compiler is run on the literal map files that the
\* Map Writer wrote in that same pass (same output directory), for every
\* configuration the loop can be started with, including a Config object passed
\* explicitly to run_forever.
C36_CompilerRunsOnWrittenFiles ==
    (ctl.fn = "pass" /\ ctl.done)
        => /\ ctl.result.compiled \subseteq ctl.result.written
           /\ { p[2] : p \in ctl.result.compiled }
                 = { "blocked_recipients", "blocked_recipients_test" }

====
